---- MODULE Spec2Model ----
(***************************************************************************)
(* A model of the device buffer cache (src/src/device/cuda.rs), of the     *)
(* proof orchestrator create_proof_from_advices and of the functions it    *)
(* relies on (src/src/lib.rs), and of the MSM merge (src/src/cuda/bn254.rs).*)
(*                                                                         *)
(* SpecCache:       threads acquiring and releasing device buffers through *)
(*                  the process-wide CUDA_BUFFER_CACHE.                    *)
(* SpecProof:       one run of create_proof_from_advices with its three    *)
(*                  background threads and the transcript.                 *)
(* SpecLookupPair:  one call of handle_lookup_pair.                        *)
(* SpecEval:        evaluate_h_gates evaluating one gate expression.       *)
(* SpecClassify:    one call of lookup_classify.                           *)
(* SpecPermutation: the permutation products thread.                       *)
(* SpecMsm:         the merge of the partial accumulators of an MSM.       *)
(* SpecYs:          the eval_ys calls of one evaluation pass.              *)
(* SpecDevices:     SpecCache on a machine with a second device.           *)
(***************************************************************************)
EXTENDS Integers, Sequences, FiniteSets, Bags, TLC

\* ------------------------------------------------------------------ bounds
MaxAddr == 2
MaxLive == 2

\* const HUGE_BUFFER_SIZE: usize = 1 << 28;
HUGE_BUFFER_SIZE == 268435456

\* the threads that use the cache: the caller of the prover and a second one
Threads == {1, 2}
\* device addresses the allocator can hand out; 0 is the null pointer
Addrs == 1..MaxAddr
NULL == 0
\* CudaDevice.device values that get_device can return
Devices == {0}
\* size arguments (element counts) and mem::size_of::<T>() of the callers
Counts == {HUGE_BUFFER_SIZE \div 2}
ElemSizes == {1, 2}

VARIABLES
    cache,      \* CUDA_BUFFER_CACHE: HashMap<(i32, usize), Vec<usize>>
    lock,       \* holder of the cache mutex, 0 when free
    poisoned,   \* the mutex was poisoned by a panic under the lock
    thr,        \* per thread: position and the CudaDeviceBufRaw in hand
    live,       \* per thread: the bag of CudaDeviceBufRaw values it owns
    current,    \* the CUDA runtime's current device of each thread
    allocated,  \* addresses the device allocator has handed out
    mem         \* contents of device memory, per address

cvars == <<cache, lock, poisoned, thr, live, current, allocated, mem>>

\* circuit sizes of the proof model
NAdvice == 2
NLookups == 2
NChunks == 2

\* largest unusable_rows_start of the lookup pairs
MaxUsable == 3

\* the background threads of create_proof_from_advices, by what they compute
Handles == {"lookup", "tuple", "perm"}
\* lookup indices, as enumerate() numbers pk.vk.cs.lookups
LookupIds == 0..(NLookups - 1)

VARIABLES
    cs_lookups,  \* pk.vk.cs.lookups: per lookup, expression count and purity
    huge,        \* size-element device buffers reach HUGE_BUFFER_SIZE
    pc,          \* the statement create_proof_from_advices is at
    idx,         \* iterations done of the loop at pc
    transcript,  \* the operations made on the transcript, in order
    bg,          \* per background thread: its state, its JoinHandle, its value
    loc,         \* locals that hold thread outputs, and which of them are set
    lookup_permuted_commitments,
    lookup_z_commitments,
    chal,        \* the challenges squeezed so far
    early,       \* what was read before it existed
    result,      \* how the call ended
    devfail,     \* the device failures that have occurred
    nbig         \* size-element device buffers the function owns

pvars == <<cs_lookups, huge, pc, idx, transcript, bg, loc, lookup_permuted_commitments,
           lookup_z_commitments, chal, early, result, devfail, nbig>>

VARIABLES
    lp,          \* a call of handle_lookup_pair: its position and its locals
    ev,          \* a call of the gate expression evaluator
    pz,          \* the permutation product computation of one circuit
    mw,          \* the merge of the partial accumulators of an MSM
    lc           \* a call of lookup_classify: its position and its locals

fvars == <<lp, ev, pz, mw, lc>>

\* what a step of one function leaves alone
notLp == <<cvars, pvars, ev, pz, mw, lc>>
notEv == <<cvars, pvars, lp, pz, mw, lc>>
notPz == <<cvars, pvars, lp, ev, mw, lc>>
notMw == <<cvars, pvars, lp, ev, pz, lc>>
notLc == <<cvars, pvars, lp, ev, pz, mw>>

vars == <<cvars, pvars, fvars>>

\* ---------------------------------------------------------------- helpers
NoBuf == [ptr |-> NULL, device |-> 0, size |-> 0]
IdleFrame == [pc |-> "idle", buf |-> NoBuf, zero |-> FALSE, after |-> "none", nfree |-> 0]
Key(b) == <<b.device, b.size>>

\* the (device, byte size) classes the callers can ask for
ClassKeys == {<<d, n * e>> : d \in Devices, n \in Counts, e \in ElemSizes}

\* cache.entry(key).or_insert(vec![]): every access to the map goes through
\* it, so a missing key and an empty vector cannot be told apart; the map is
\* a function on all classes and <<>> stands for both
Entry(c, key) == c[key]

\* arr.contains(&ptr)
Contains(arr, p) == \E i \in 1..Len(arr) : arr[i] = p

\* arr.pop(): the last element and the rest
Last(arr) == arr[Len(arr)]
Front(arr) == SubSeq(arr, 1, Len(arr) - 1)

\* a slip in the threshold test of Drop: <= for <
IsPooledInclusive(b) == b.size <= HUGE_BUFFER_SIZE

\* the branch of Drop a buffer takes: if self.size < HUGE_BUFFER_SIZE
IsPooled(b) == b.size < HUGE_BUFFER_SIZE

DropEntry(b) == IF IsPooled(b) THEN "d_lock" ELSE "d_ctx"

\* ------------------------------------------------- orchestrator: helpers
\* the advice columns are converted before the permutation thread is joined
StagesInttBeforeJoin ==
    <<"instances", "get_device", "pin", "alloc_advice", "alloc_g", "spawn_lookup",
      "advice_msm", "theta", "join_lookup", "spawn_tuple", "unit_msm", "comp_msm",
      "join_tuple", "tuple_msm", "write_permuted", "beta", "gamma", "sort_lookups",
      "ntt_prepare", "divisor", "spawn_perm", "alloc_tmp", "alloc_ntt", "lookup_z",
      "advice_intt", "join_perm", "perm_z", "write_z", "vanishing", "y", "ntt_prepare_h",
      "eval_h", "exit_ok">>

\* the statements of create_proof_from_advices, in program order
StagesJoinBeforeTheta ==
    <<"instances", "get_device", "pin", "alloc_advice", "alloc_g", "spawn_lookup",
      "advice_msm", "join_lookup", "theta", "spawn_tuple", "unit_msm", "comp_msm",
      "join_tuple", "tuple_msm", "write_permuted", "beta", "gamma", "sort_lookups",
      "ntt_prepare", "divisor", "spawn_perm", "alloc_tmp", "alloc_ntt", "lookup_z",
      "join_perm", "perm_z", "write_z", "vanishing", "y", "ntt_prepare_h",
      "advice_intt", "eval_h", "exit_ok">>

Stages ==
    <<"instances", "get_device", "pin", "alloc_advice", "alloc_g", "spawn_lookup",
      "advice_msm", "theta", "join_lookup", "spawn_tuple", "unit_msm", "comp_msm",
      "join_tuple", "tuple_msm", "write_permuted", "beta", "gamma", "sort_lookups",
      "ntt_prepare", "divisor", "spawn_perm", "alloc_tmp", "alloc_ntt", "lookup_z",
      "join_perm", "perm_z", "write_z", "vanishing", "y", "ntt_prepare_h",
      "advice_intt", "eval_h", "exit_ok">>

NextStage(s) == Stages[(CHOOSE i \in 1..Len(Stages) : Stages[i] = s) + 1]

\* transcript.write_point(commitment) and transcript.squeeze_challenge_scalar()
Write(what, i) == [op |-> "write", what |-> what, i |-> i]
Squeeze(what) == [op |-> "squeeze", what |-> what, i |-> 0]
\* a call into halo2_proofs that is handed the transcript
External == [op |-> "external", what |-> "external", i |-> 0]

\* C::identity(), and the commitment of column `what` of lookup or chunk i
Identity == [what |-> "identity", i |-> 0]
Commitment(what, i) == [what |-> what, i |-> i]

\* lookup_classify: is_single, is_unit
ClassOf(l) ==
    IF l.len = 1
      THEN (IF l.pure THEN "unit" ELSE "comp")
      ELSE "tuple"

\* lookup_classify: the (i, buf) pairs of each class, in enumerate() order
ClassMembers(cs, c) ==
    LET InClass(i) == ClassOf(cs[i]) = c
    IN SelectSeq([j \in 1..NLookups |-> j - 1], InClass)

lookup_classify(cs) ==
    <<ClassMembers(cs, "unit"), ClassMembers(cs, "comp"), ClassMembers(cs, "tuple")>>

\* the list left as appended
Unsorted(s) == s

RECURSIVE Insert(_, _)
Insert(s, x) ==
    IF s = <<>> THEN <<x>>
    ELSE IF x < s[1] THEN <<x>> \o s
    ELSE <<s[1]>> \o Insert(Tail(s), x)

RECURSIVE InsertAll(_, _)
InsertAll(acc, s) == IF s = <<>> THEN acc ELSE InsertAll(Insert(acc, s[1]), Tail(s))

\* lookups.sort_by(|l, r| usize::cmp(&l.0, &r.0))
SortByIndex(s) == InsertAll(<<>>, s)

\* a JoinHandle that goes out of scope detaches its thread
Detach(b) ==
    [h \in Handles |-> IF b[h].handle = "held" THEN [b[h] EXCEPT !.handle = "dropped"] ELSE b[h]]

NotSpawned == [state |-> "none", handle |-> "none", val |-> <<>>]

NoLocals ==
    [single_unit_lookups |-> <<>>, single_comp_lookups |-> <<>>, tuple_lookups |-> <<>>,
     lookups |-> <<>>, permutation_products |-> <<>>, defd |-> {}]

\* reading the locals ns and the challenges cs: what of them does not exist yet
Missing(ns, cs) == (ns \ loc.defd) \cup (cs \ chal)

\* --------------------------------------------------- handle_lookup_pair
\* Field elements are the numbers 0..MaxVal.  compare() reads an element as
\* its limbs [u64; 4], least significant limb first; two limbs of LimbBase
\* values each stand for them.
LimbBase == 2
Values == 0..2
Limbs(v) == <<v % LimbBase, v \div LimbBase>>

\* let compare = |a, b| { .. a.cmp(b) }: the order of the limb arrays
CompareLess(a, b) ==
    \/ Limbs(a)[1] < Limbs(b)[1]
    \/ Limbs(a)[1] = Limbs(b)[1] /\ Limbs(a)[2] < Limbs(b)[2]

RECURSIVE InsertBy(_, _)
InsertBy(s, x) ==
    IF s = <<>> THEN <<x>>
    ELSE IF CompareLess(x, s[1]) THEN <<x>> \o s
    ELSE <<s[1]>> \o InsertBy(Tail(s), x)

RECURSIVE SortBy(_, _)
SortBy(acc, s) == IF s = <<>> THEN acc ELSE SortBy(InsertBy(acc, s[1]), Tail(s))

\* the rows left in the order they came in
KeepOrder(v, u) == v

\* v[0..unusable_rows_start].sort_unstable_by(compare)
SortPrefix(v, u) == SortBy(<<>>, SubSeq(v, 1, u)) \o SubSeq(v, u + 1, Len(v))

\* row r of a vector, rows counted from 0
Row(v, r) == v[r + 1]

\* every row takes a table value
FillsEveryRow(state, i) == TRUE

\* if !permuted_table_state[i]
Fills(state, i) == ~Row(state, i)

\* only row 0 counts as a first occurrence
OnlyRowZero(v, row) == row = 0

\* if row == 0 || *input_value != permuted_input[row - 1]
FirstOccurrence(v, row) == row = 0 \/ Row(v, row) # Row(v, row - 1)

\* the index is left where it is
StaysPut(state, i, u) == i

\* let to_next_unique = |i| while *i < unusable_rows_start && !state[*i] { *i += 1 }
RECURSIVE to_next_unique(_, _, _)
to_next_unique(state, i, u) ==
    IF i < u /\ ~Row(state, i) THEN to_next_unique(state, i + 1, u) ELSE i

\* while i_unique_input_idx < unusable_rows_start
\*     && permuted_table[i_unique_input_idx] == sorted_table[i_sorted_table_idx]
\* { i_unique_input_idx += 1; i_sorted_table_idx += 1; to_next_unique(..); }
\* An index past the end of sorted_table panics.
RECURSIVE MatchLoop(_, _, _, _, _, _)
MatchLoop(pt, st, state, iu, is, u) ==
    IF iu < u
      THEN IF is >= Len(st)
             THEN [iu |-> iu, is |-> is, oob |-> TRUE]
             ELSE IF Row(pt, iu) = Row(st, is)
                    THEN MatchLoop(pt, st, state, to_next_unique(state, iu + 1, u), is + 1, u)
                    ELSE [iu |-> iu, is |-> is, oob |-> FALSE]
      ELSE [iu |-> iu, is |-> is, oob |-> FALSE]

LpIdle == [pc |-> "idle"]

\* handle_lookup_pair(input, table, unusable_rows_start) is called; read is the
\* highest index at which sorted_table has been read so far (-1: not yet)
LpCall(input, table, u) ==
    [pc |-> "prepare", input |-> input, table |-> table, u |-> u,
     permuted_input |-> <<>>, sorted_table |-> <<>>, permuted_table_state |-> <<>>,
     permuted_table |-> <<>>, i |-> 0, i_unique_input_idx |-> 0, i_sorted_table_idx |-> 0,
     read |-> -1, beta |-> 0, gamma |-> 0, z |-> <<>>]

\* lines 141-164: the clones, the two sorts, and the marking of the first
\* occurrence of every input value, which also puts that value into permuted_table
LpPrepare ==
    /\ lp.pc = "prepare"
    /\ LET pin == SortPrefix(lp.input, lp.u)
           n == Len(lp.input)
       IN lp' = [lp EXCEPT
                   !.pc = "rows",
                   !.permuted_input = pin,
                   !.sorted_table = SortPrefix(lp.table, lp.u),
                   !.permuted_table_state = [j \in 1..n |-> FirstOccurrence(pin, j - 1)],
                   !.permuted_table =
                       [j \in 1..n |-> IF FirstOccurrence(pin, j - 1) THEN pin[j] ELSE 0]]

\* one iteration of: for i in 0..unusable_rows_start { .. }
LpRow ==
    /\ lp.pc = "rows"
    /\ lp.i < lp.u
    /\ LET state == lp.permuted_table_state
           m == MatchLoop(lp.permuted_table, lp.sorted_table, state,
                          to_next_unique(state, lp.i_unique_input_idx, lp.u),
                          lp.i_sorted_table_idx, lp.u)
           \* the loop stopped at a comparison, or the row is filled: the
           \* element under the cursor was read; otherwise the one before it,
           \* if the cursor moved
           top == IF m.iu < lp.u \/ Fills(state, lp.i) THEN m.is
                  ELSE IF m.is > lp.i_sorted_table_idx THEN m.is - 1 ELSE lp.read
       IN IF m.oob \/ (Fills(state, lp.i) /\ m.is >= Len(lp.sorted_table))
            THEN lp' = [lp EXCEPT !.pc = "panicked", !.read = m.is]
            ELSE lp' = [lp EXCEPT
                          !.i = @ + 1,
                          !.read = IF top > @ THEN top ELSE @,
                          !.i_unique_input_idx = m.iu,
                          !.i_sorted_table_idx = IF Fills(state, lp.i) THEN m.is + 1 ELSE m.is,
                          !.permuted_table =
                              IF Fills(state, lp.i)
                                THEN [@ EXCEPT ![lp.i + 1] = Row(lp.sorted_table, m.is)]
                                ELSE @]

\* the check of lines 189-201: a row whose two values differ must repeat the
\* input value of the row before it; assert_eq! and last.unwrap() panic otherwise
LpCheck ==
    /\ lp.pc = "rows"
    /\ lp.i = lp.u
    /\ LET bad == \E r \in 0..(lp.u - 1) :
                     /\ Row(lp.permuted_input, r) # Row(lp.permuted_table, r)
                     /\ (r = 0 \/ Row(lp.permuted_input, r) # Row(lp.permuted_input, r - 1))
       IN lp' = [lp EXCEPT !.pc = IF bad THEN "panicked" ELSE "done"]

\* ------------------------------------------------ gate expression evaluator
\* internal nodes (Op, Scale) of the expressions evaluated
MaxOps == 2

\* FieldExt: the integers modulo FieldP
FieldP == 13
FAdd(a, b) == (a + b) % FieldP
FMul(a, b) == (a * b) % FieldP

\* Option<F>
None == [some |-> FALSE, v |-> 0]
Some(x) == [some |-> TRUE, v |-> x]

\* the device buffers of the columns (fixed_buf, advice_buf, instance_buf);
\* buffers acquired during the pass are numbered after them
Columns == {1, 2}
FirstFresh == Cardinality(Columns) + 1

\* BTreeMap<u32, F> of a linear combination of y powers: (order, coefficient)
\* pairs in key order
YsLeaf == << <<2, 1>> >>
YsScale == << <<0, 1>>, <<1, 1>> >>

\* ProveExpression nodes
Unit(col, rot) == [t |-> "Unit", kids |-> <<>>, col |-> col, rot |-> rot, ys |-> <<>>, op |-> "none"]
Y(ys) == [t |-> "Y", kids |-> <<>>, col |-> 0, rot |-> 0, ys |-> ys, op |-> "none"]
Scale(l, ys) == [t |-> "Scale", kids |-> <<l>>, col |-> 0, rot |-> 0, ys |-> ys, op |-> "none"]
Op(l, r, op) == [t |-> "Op", kids |-> <<l, r>>, col |-> 0, rot |-> 0, ys |-> <<>>, op |-> op]

\* the rotation at which the expressions studied query column col: the first
\* column at the current row, the second at the next row
RotationOf(col) == col - 1

\* the expressions with exactly n internal nodes
RECURSIVE Trees(_)
Trees(n) ==
    IF n = 0
      THEN {Unit(c, RotationOf(c)) : c \in Columns} \cup {Y(YsLeaf)}
      ELSE {Scale(l, YsScale) : l \in Trees(n - 1)}
           \cup UNION {{Op(l, r, op) : l \in Trees(i), r \in Trees(n - 1 - i),
                                       op \in {"Sum", "Product"}} : i \in 0..(n - 1)}

Exprs == UNION {Trees(n) : n \in 0..MaxOps}

\* EvalResult::SumBorrow(deg, arr, c) and EvalResult::Single(deg, buf)
SumBorrow(deg, arr, c) == [kind |-> "SumBorrow", deg |-> deg, arr |-> arr, c |-> c, buf |-> 0]
Single(deg, buf) == [kind |-> "Single", deg |-> deg, arr |-> <<>>, c |-> None, buf |-> buf]
NoResult == [kind |-> "none", deg |-> 0, arr |-> <<>>, c |-> None, buf |-> 0]

\* one term of a SumBorrow: (&CudaDeviceBufRaw, isize, Option<F>)
Term(src, rot, c) == [src |-> src, rot |-> rot, c |-> c]

\* a call into the device: its name, the buffers it is given, the borrowed
\* terms it is given, its element count
Call(f, bufs, arr, n) == [f |-> f, bufs |-> bufs, arr |-> arr, n |-> n]

\* one pop or push of ctx.extended_allocator: the buffer, the number of device
\* calls issued before it, and the free-list it leaves
Moved(w, op, buf, pool) == [op |-> op, buf |-> buf, at |-> Len(w.calls), pool |-> pool]

\* The world a pass runs in: EvalHContext (y, extended_allocator, size,
\* extended_size), the number of the next fresh device buffer, the device
\* calls issued so far, the pops and pushes of the free-list so far, and the
\* call that is going to fail (0: none).
\* status is "ok", "err" once a call has returned Err, "panic" after a failed assert.
World(y, k, extended_k, failAt) ==
    [y |-> <<1, y>>, extended_allocator |-> <<>>, size |-> 2 ^ k,
     extended_size |-> 2 ^ extended_k, fresh |-> FirstFresh, calls |-> <<>>,
     trail |-> <<>>, failAt |-> failAt, status |-> "ok"]

\* a device call returning DeviceResult, followed by `?`
Dev(w, call) ==
    IF w.status # "ok" THEN w
    ELSE [w EXCEPT !.calls = Append(@, call),
                   !.status = IF Len(w.calls) + 1 = w.failAt THEN "err" ELSE "ok"]

\* assert!(cond)
AssertThat(w, cond) == IF w.status = "ok" /\ ~cond THEN [w EXCEPT !.status = "panic"] ELSE w

\* let buf = ctx.extended_allocator.pop();
\* if buf.is_none() { device.alloc_device_buffer::<F>(ctx.extended_size)? } else { buf.unwrap() }
TakeBuf(w) ==
    IF w.status # "ok" THEN [buf |-> 0, w |-> w]
    ELSE IF w.extended_allocator # <<>>
      THEN [buf |-> Last(w.extended_allocator),
            w |-> [w EXCEPT !.extended_allocator = Front(@),
                            !.trail = Append(@, Moved(w, "pop", Last(w.extended_allocator),
                                                      Front(w.extended_allocator)))]]
      ELSE [buf |-> w.fresh,
            w |-> [Dev(w, Call("alloc_device_buffer", <<w.fresh>>, <<>>, w.extended_size))
                      EXCEPT !.fresh = @ + 1]]

\* the buffer is dropped, not pushed
DropBuf(w, buf) == w

\* ctx.extended_allocator.push(buf)
PushBuf(w, buf) ==
    IF w.status # "ok" THEN w
    ELSE [w EXCEPT !.extended_allocator = Append(@, buf),
                   !.trail = Append(@, Moved(w, "push", buf, Append(w.extended_allocator, buf)))]

\* do_extended_fft(device, ctx, data)
do_extended_fft(w, data) ==
    LET t == TakeBuf(w)
        w1 == Dev(t.w, Call("extended_prepare", <<data>>, <<>>, w.extended_size))
        w2 == Dev(w1, Call("synchronize", <<>>, <<>>, 0))
        w3 == Dev(w2, Call("ntt_raw", <<data, t.buf>>, <<>>, w.extended_size))
        w4 == Dev(w3, Call("synchronize", <<>>, <<>>, 0))
    IN PushBuf(w4, t.buf)

\* the transform is left out
NeverLift(deg, target_deg) == FALSE

\* if deg != target_deg
NeedsLift(deg, target_deg) == deg # target_deg

\* EvalResult::eval(self, device, target_deg, ctx)
EvalTo(r, target_deg, w) ==
    LET w0 == IF r.kind = "SumBorrow" THEN AssertThat(w, r.deg = 1) ELSE w
        t == TakeBuf(w0)
        w1 == Dev(t.w, Call("field_mul_sum_vec", <<t.buf>>, r.arr, w.size))
        w2 == IF r.c.some
                THEN Dev(Dev(w1, Call("copy_from_device_to_host", <<t.buf>>, <<>>, 1)),
                         Call("copy_from_host_to_device", <<t.buf>>, <<>>, 1))
                ELSE w1
        buf == IF r.kind = "SumBorrow" THEN t.buf ELSE r.buf
        w3 == IF r.kind = "SumBorrow" THEN w2 ELSE w
        w4 == IF NeedsLift(r.deg, target_deg)
                THEN do_extended_fft(AssertThat(w3, target_deg = 4), buf)
                ELSE w3
    IN [buf |-> buf, w |-> w4]

\* the terms of the right side put first
MergeTermsSwapped(l, r) == r \o l

\* l.append(&mut r)
MergeTerms(l, r) == l \o r

\* EvalResult::merge(self, other) of two SumBorrow values
merge(l, r) ==
    SumBorrow(l.deg, MergeTerms(l.arr, r.arr),
              IF r.c.some
                THEN (IF l.c.some THEN Some(FAdd(l.c.v, r.c.v)) ELSE r.c)
                ELSE l.c)

\* the constant of a SumBorrow is left as it is
scale_terms_only(r, v, w) ==
    IF r.kind = "SumBorrow"
      THEN [r |-> SumBorrow(r.deg,
                            [j \in 1..Len(r.arr) |->
                                Term(r.arr[j].src, r.arr[j].rot,
                                     IF r.arr[j].c.some THEN Some(FMul(r.arr[j].c.v, v))
                                                        ELSE Some(v))],
                            r.c),
            w |-> w]
      ELSE [r |-> r,
            w |-> Dev(w, Call("field_op_v2", <<r.buf, r.buf>>, <<Term(r.buf, 0, Some(v))>>,
                             w.size * r.deg))]

\* EvalResult::scale(&mut self, device, v, ctx)
scale(r, v, w) ==
    IF r.kind = "SumBorrow"
      THEN [r |-> SumBorrow(r.deg,
                            [j \in 1..Len(r.arr) |->
                                Term(r.arr[j].src, r.arr[j].rot,
                                     IF r.arr[j].c.some THEN Some(FMul(r.arr[j].c.v, v))
                                                        ELSE Some(v))],
                            IF r.c.some THEN Some(FMul(v, r.c.v)) ELSE None),
            w |-> w]
      ELSE [r |-> r,
            w |-> Dev(w, Call("field_op_v2", <<r.buf, r.buf>>, <<Term(r.buf, 0, Some(v))>>,
                             w.size * r.deg))]

\* eval_ys: for _ in ctx.y.len()..=max_y_order { ctx.y.push(ctx.y[1] * ctx.y.last()) }
RECURSIVE ExtendY(_, _)
ExtendY(y, max_y_order) ==
    IF Len(y) <= max_y_order THEN ExtendY(Append(y, FMul(y[2], y[Len(y)])), max_y_order) ELSE y

RECURSIVE SumYs(_, _)
SumYs(ys, y) ==
    IF ys = <<>> THEN 0 ELSE FAdd(FMul(y[ys[1][1] + 1], ys[1][2]), SumYs(Tail(ys), y))

\* the value is computed, the extended power table is thrown away
eval_ys_unsaved(ys, w) == [c |-> SumYs(ys, ExtendY(w.y, ys[Len(ys)][1])), w |-> w]

\* eval_ys(ys, ctx): the value, and the context with its extended power table
eval_ys(ys, w) ==
    LET y == ExtendY(w.y, ys[Len(ys)][1])
    IN [c |-> SumYs(ys, y), w |-> [w EXCEPT !.y = y]]

\* evaluate_prove_expr(device, expr, fixed_buf, advice_buf, instance_buf, ctx)
RECURSIVE evaluate_prove_expr(_, _)
evaluate_prove_expr(expr, w) ==
    CASE expr.t = "Unit" ->
           [r |-> SumBorrow(1, <<Term(expr.col, expr.rot, None)>>, None), w |-> w]
      [] expr.t = "Y" ->
           LET c == eval_ys(expr.ys, w)
           IN [r |-> SumBorrow(1, <<>>, Some(c.c)), w |-> c.w]
      [] expr.t = "Scale" ->
           LET l == evaluate_prove_expr(expr.kids[1], w)
           IN IF l.w.status # "ok" THEN [r |-> NoResult, w |-> l.w]
              ELSE LET c == eval_ys(expr.ys, l.w)
                       s == scale(l.r, c.c, c.w)
                   IN IF s.w.status # "ok" THEN [r |-> NoResult, w |-> s.w] ELSE s
      [] expr.t = "Op" ->
           LET l == evaluate_prove_expr(expr.kids[1], w)
               r == evaluate_prove_expr(expr.kids[2], l.w)
           IN IF l.w.status # "ok" THEN [r |-> NoResult, w |-> l.w]
              ELSE IF r.w.status # "ok" THEN [r |-> NoResult, w |-> r.w]
              ELSE IF expr.op = "Sum" /\ l.r.deg = r.r.deg
                      /\ l.r.kind = "SumBorrow" /\ r.r.kind = "SumBorrow"
                THEN LET w1 == AssertThat(r.w, l.r.deg = 1)
                     IN IF w1.status # "ok" THEN [r |-> NoResult, w |-> w1]
                        ELSE [r |-> merge(l.r, r.r), w |-> w1]
                ELSE LET lb == EvalTo(l.r, 4, r.w)
                         rb == EvalTo(r.r, 4, lb.w)
                         w1 == Dev(rb.w, Call(IF expr.op = "Sum" THEN "field_sum" ELSE "field_mul",
                                              <<lb.buf, rb.buf>>, <<>>, w.extended_size))
                         w2 == PushBuf(w1, rb.buf)
                     IN IF w2.status # "ok" THEN [r |-> NoResult, w |-> w2]
                        ELSE [r |-> Single(4, lb.buf), w |-> w2]

\* evaluate_h_gates from the call of evaluate_prove_expr to the copy of the
\* result to the host (lines 959-977)
EvCall(expr, w) == [pc |-> "call", expr |-> expr, w |-> w, res |-> NoResult, h_buf |-> 0]

\* let buf = evaluate_prove_expr(device, &exprs[0], ..., &mut ctx)?;
EvEvaluate ==
    /\ ev.pc = "call"
    /\ LET e == evaluate_prove_expr(ev.expr, ev.w)
       IN ev' = [ev EXCEPT !.pc = CASE e.w.status = "ok" -> "match"
                                    [] e.w.status = "err" -> "err"
                                    [] OTHER -> "panicked",
                           !.w = e.w,
                           !.res = e.r]

\* match buf { SumBorrow(_, _, _) => unreachable!(), Single(_, buf) => buf };
\* device.print_memory_info()?;
EvMatch ==
    /\ ev.pc = "match"
    /\ IF ev.res.kind = "Single"
         THEN LET w == Dev(ev.w, Call("print_memory_info", <<>>, <<>>, 0))
              IN ev' = [ev EXCEPT !.pc = IF w.status = "ok" THEN "copy" ELSE "err",
                                  !.w = w,
                                  !.h_buf = ev.res.buf]
         ELSE ev' = [ev EXCEPT !.pc = "panicked"]

\* device.copy_from_device_to_host(&mut res[..], &h_buf)?;
EvCopy ==
    /\ ev.pc = "copy"
    /\ LET w == Dev(ev.w, Call("copy_from_device_to_host", <<ev.h_buf>>, <<>>, ev.w.extended_size))
       IN ev' = [ev EXCEPT !.pc = IF w.status = "ok" THEN "done" ELSE "err", !.w = w]

\* ------------------------------------------------- permutation running product
RECURSIVE FPow(_, _)
FPow(a, n) == IF n = 0 THEN 1 ELSE FMul(a, FPow(a, n - 1))

\* batch_invert: a zero entry is left zero, any other entry is inverted
FInv(a) == IF a = 0 THEN 0 ELSE FPow(a, FieldP - 2)

\* the domain: size = 1 << k rows, omega a primitive size-th root of unity,
\* Scalar::DELTA a generator of the odd-order subgroup
PzK == 2
PzSize == 2 ^ PzK
OMEGA == 8
DELTA == 3

\* const ADD_RANDOM: bool = false
ADD_RANDOM == FALSE

\* one column of size rows: entry r + 1 is row r
At0(v, r) == v[r + 1]

\* the columns of chunk c (from 0): par_chunks(chunk_len)
ChunkColumns(p, c) ==
    SubSeq(p.columns, c * p.chunk_len + 1,
           IF (c + 1) * p.chunk_len < Len(p.columns) THEN (c + 1) * p.chunk_len
                                                     ELSE Len(p.columns))

ChunkCount(p) == (Len(p.columns) + p.chunk_len - 1) \div p.chunk_len

\* first loop over the columns of a chunk:
\* modified_values[i] *= beta * permuted_column_values[i] + gamma + values[column.index()][i]
RECURSIVE Denominators(_, _, _)
Denominators(p, cols, mv) ==
    IF cols = <<>> THEN mv
    ELSE Denominators(p, Tail(cols),
            [i \in 1..PzSize |->
                FMul(mv[i], FAdd(FAdd(FMul(p.beta, cols[1].permuted[i]), p.gamma),
                                 cols[1].values[i]))])

\* the coset factor is left as it is between columns
SameDelta(delta_omega) == delta_omega

\* delta_omega *= &C::Scalar::DELTA
NextColumnDelta(delta_omega) == FMul(delta_omega, DELTA)

\* the rows of one column in the second loop:
\* modified_values[i] *= delta_omega * beta + gamma + values[column.index()][i];
\* delta_omega *= omega
RECURSIVE NumeratorRows(_, _, _, _, _)
NumeratorRows(p, col, i, mv, delta_omega) ==
    IF i = PzSize THEN [mv |-> mv, delta_omega |-> delta_omega]
    ELSE NumeratorRows(p, col, i + 1,
            [mv EXCEPT ![i + 1] = FMul(@, FAdd(FAdd(FMul(delta_omega, p.beta), p.gamma),
                                               At0(col.values, i)))],
            FMul(delta_omega, OMEGA))

\* second loop over the columns of a chunk
RECURSIVE Numerators(_, _, _, _)
Numerators(p, cols, mv, delta_omega) ==
    IF cols = <<>> THEN mv
    ELSE LET rows == NumeratorRows(p, cols[1], 0, mv, delta_omega)
         IN Numerators(p, Tail(cols), rows.mv, NextColumnDelta(rows.delta_omega))

\* the closure mapped over the chunks: modified_values of chunk i
ModifiedValues(p, i) ==
    LET ones == [r \in 1..PzSize |-> 1]
        den == Denominators(p, ChunkColumns(p, i), ones)
        inv == [r \in 1..PzSize |-> FInv(den[r])]
    IN Numerators(p, ChunkColumns(p, i), inv, FPow(DELTA, i * p.chunk_len))

\* the slot takes the accumulator after the multiplication
ScanInclusive(z, i, tmp) == [z |-> [z EXCEPT ![i + 1] = FMul(tmp, At0(z, i))],
                             tmp |-> FMul(tmp, At0(z, i))]

\* std::mem::swap(&mut tmp, &mut z[i]); tmp = tmp * z[i];
ScanStep(z, i, tmp) == [z |-> [z EXCEPT ![i + 1] = tmp], tmp |-> FMul(At0(z, i), tmp)]

\* for i in 0..size { ... }
RECURSIVE ScanRows(_, _, _)
ScanRows(z, i, tmp) ==
    IF i = PzSize THEN [z |-> z, tmp |-> tmp]
    ELSE LET s == ScanStep(z, i, tmp) IN ScanRows(s.z, i + 1, s.tmp)

\* for v in z[unusable_rows_start + 1..].iter_mut() { if ADD_RANDOM { *v = random } }
Blinded(z, u, random) ==
    [r \in 1..PzSize |-> IF ADD_RANDOM /\ r - 1 > u THEN random[r] ELSE z[r]]

\* the values Scalar::random can give, when it is called at all
Randoms == IF ADD_RANDOM THEN [1..PzSize -> 0..(FieldP - 1)] ELSE {[r \in 1..PzSize |-> 0]}

PzIdle == [pc |-> "idle"]

\* permutation_products_handler is spawned
PzCall(columns, chunk_len, beta, gamma, u) ==
    [pc |-> "chunks", columns |-> columns, chunk_len |-> chunk_len, beta |-> beta,
     gamma |-> gamma, unusable_rows_start |-> u,
     p_z |-> [c \in 1..((Len(columns) + chunk_len - 1) \div chunk_len) |-> <<>>],
     mapped |-> {}, scanned |-> 0, tmp |-> 1]

\* the closure of par_chunks(..).map runs for one chunk
PzChunk ==
    /\ pz.pc = "chunks"
    /\ \E i \in (0..(ChunkCount(pz) - 1)) \ pz.mapped :
          pz' = [pz EXCEPT !.p_z[i + 1] = ModifiedValues(pz, i),
                           !.mapped = @ \cup {i}]

\* the accumulator runs on into the next chunk
KeepAccumulator(z, u, tmp) == tmp

\* tmp = z[unusable_rows_start]
NextStart(z, u, tmp) == At0(z, u)

\* one round of `for z in p_z.iter_mut()`, after collect()
PzScan ==
    /\ pz.pc = "chunks"
    /\ pz.mapped = 0..(ChunkCount(pz) - 1)
    /\ pz.scanned < ChunkCount(pz)
    /\ \E random \in Randoms :
          LET s == ScanRows(pz.p_z[pz.scanned + 1], 0, pz.tmp)
              z == Blinded(s.z, pz.unusable_rows_start, random)
          IN pz' = [pz EXCEPT !.p_z[pz.scanned + 1] = z,
                              !.tmp = NextStart(s.z, pz.unusable_rows_start, s.tmp),
                              !.scanned = @ + 1]

\* the closure returns p_z
PzReturn ==
    /\ pz.pc = "chunks"
    /\ pz.mapped = 0..(ChunkCount(pz) - 1)
    /\ pz.scanned = ChunkCount(pz)
    /\ pz' = [pz EXCEPT !.pc = "returned"]

\* ---------------------------------------------------------------- MSM merge
\* groups of the MSM studied
MaxGroups == 2

\* the accumulators per group (one per window of the scalar) and the bits of
\* a window
Windows == 32
WindowBits == 8

\* G1, as the additive group of the integers modulo its order; the generator is 1
GroupOrder == 101
GAdd(a, b) == (a + b) % GroupOrder
group_zero == 0

\* scalar * point
GMul(k, a) == ((k % GroupOrder) * a) % GroupOrder

\* 2^n modulo the group order
RECURSIVE GPow2(_)
GPow2(n) ==
    IF n = 0 THEN 1
    ELSE IF n % 2 = 0 THEN LET h == GPow2(n \div 2) IN (h * h) % GroupOrder
    ELSE (2 * GPow2(n - 1)) % GroupOrder

\* a scalar, as the set of its non-zero windows: <<window, digit>>
Digit(s, w) == IF \E d \in s : d[1] = w THEN (CHOOSE d \in s : d[1] = w)[2] ELSE 0

\* the scalar modulo the group order
RECURSIVE ScalarValue(_, _)
ScalarValue(s, w) ==
    IF w = Windows THEN 0
    ELSE (Digit(s, w) * GPow2(WindowBits * w) + ScalarValue(s, w + 1)) % GroupOrder

RECURSIVE SumOver(_, _)
SumOver(F(_), S) ==
    IF S = {} THEN group_zero
    ELSE LET x == CHOOSE y \in S : TRUE IN GAdd(F(x), SumOver(F, S \ {x}))

\* msm(msm_groups, 256, tmp, p, s, len): group g accumulates, for each window
\* w, the points of its share of the input times their window-w digits, into
\* tmp[w + 32 * g]
Partials(groups, p, s) ==
    [x \in 0..(Windows * groups - 1) |->
        LET w == x % Windows
            g == x \div Windows
            T(i) == GMul(Digit(s[i], w), p[i])
        IN SumOver(T, {i \in 1..Len(p) : (i - 1) % groups = g})]

\* the window is added before the doublings
AddThenDouble(acc, t) ==
    LET a == GAdd(acc, t) IN GMul(GPow2(WindowBits), a)

\* for _ in 0..8 { msm_res = msm_res + msm_res; } msm_res = msm_res + tmp[30 - i];
RECURSIVE Doubled(_, _)
Doubled(acc, n) == IF n = 0 THEN acc ELSE Doubled(GAdd(acc, acc), n - 1)

LadderStep(acc, t) == GAdd(Doubled(acc, WindowBits), t)

\* for j in 1..msm_groups { tmp[i] = tmp[i] + tmp[i + j * 32]; }
RECURSIVE SumGroups(_, _, _, _)
SumGroups(tmp, i, j, groups) ==
    IF j >= groups THEN tmp
    ELSE SumGroups([tmp EXCEPT ![i] = GAdd(tmp[i], tmp[i + j * Windows])], i, j + 1, groups)

MwIdle == [pc |-> "idle"]

\* the test has its points p (generator * ps), its scalars s and its zeroed tmp
MwCall(groups, p, s) ==
    [pc |-> "msm", msm_groups |-> groups, p |-> p, s |-> s,
     tmp |-> [x \in 0..(Windows * groups - 1) |-> group_zero],
     i |-> 0, msm_res |-> group_zero]

\* msm(...); synchronize; copy_from_device_to_host(&mut tmp[..], &tmp_buf)
MwMsm ==
    /\ mw.pc = "msm"
    /\ mw' = [mw EXCEPT !.pc = "sum", !.tmp = Partials(mw.msm_groups, mw.p, mw.s)]

\* one round of `for i in 0..32`
MwSum ==
    /\ mw.pc = "sum"
    /\ mw.i < Windows
    /\ mw' = [mw EXCEPT !.tmp = SumGroups(mw.tmp, mw.i, 1, mw.msm_groups), !.i = @ + 1]

\* let mut msm_res = tmp[31];
MwTop ==
    /\ mw.pc = "sum"
    /\ mw.i = Windows
    /\ mw' = [mw EXCEPT !.pc = "ladder", !.i = 0, !.msm_res = mw.tmp[Windows - 1]]

\* one round of `for i in 0..31`
MwLadder ==
    /\ mw.pc = "ladder"
    /\ mw.i < Windows - 1
    /\ mw' = [mw EXCEPT !.msm_res = LadderStep(mw.msm_res, mw.tmp[Windows - 2 - mw.i]),
                        !.i = @ + 1]

\* acc = sum of s[i] * ps[i]; msm_res_expect = generator * acc
Expected(p, s) ==
    LET T(i) == GMul(ScalarValue(s[i], 0), p[i]) IN SumOver(T, 1..Len(p))

\* assert_eq!(msm_res.to_affine(), msm_res_expect.to_affine())
MwAssert ==
    /\ mw.pc = "ladder"
    /\ mw.i = Windows - 1
    /\ mw' = [mw EXCEPT !.pc = IF mw.msm_res = Expected(mw.p, mw.s) THEN "passed"
                                                                     ELSE "panicked"]

\* ------------------------------------------------------------ lookup_classify
\* Expression<F>, by its outermost constructor
Kinds == {"Advice", "Product"}

\* input_expressions / table_expressions: one expression of any kind, or two
ExprLists == {<<k>> : k \in Kinds} \cup {<<"Advice", "Product">>}

\* is_expression_pure_unit(x)
is_expression_pure_unit(x) == x \in {"Constant", "Fixed", "Advice", "Instance"}

\* one list holding one expression is enough
IsSingleEither(lookup) ==
    Len(lookup.input_expressions) = 1 \/ Len(lookup.table_expressions) = 1

\* lookup.input_expressions.len() == 1 && lookup.table_expressions.len() == 1
IsSingle(lookup) ==
    Len(lookup.input_expressions) = 1 /\ Len(lookup.table_expressions) = 1

\* is_expression_pure_unit(&input_expressions[0]) && is_expression_pure_unit(&table_expressions[0])
IsUnit(lookup) ==
    /\ is_expression_pure_unit(lookup.input_expressions[1])
    /\ is_expression_pure_unit(lookup.table_expressions[1])

LcIdle == [pc |-> "idle"]

\* lookup_classify(pk, lookups_buf) is entered
LcCall(lookups, lookups_buf) ==
    [pc |-> "each", lookups |-> lookups, lookups_buf |-> lookups_buf, i |-> 0,
     single_unit_lookups |-> <<>>, single_comp_lookups |-> <<>>, tuple_lookups |-> <<>>]

\* one round of for_each over the enumerated, zipped lookups
LcEach ==
    /\ lc.pc = "each"
    /\ lc.i < Len(lc.lookups)
    /\ lc.i < Len(lc.lookups_buf)
    /\ LET lookup == lc.lookups[lc.i + 1]
           entry == <<lc.i, lc.lookups_buf[lc.i + 1]>>
       IN lc' = IF IsSingle(lookup)
                  THEN (IF IsUnit(lookup)
                          THEN [lc EXCEPT !.i = @ + 1, !.single_unit_lookups = Append(@, entry)]
                          ELSE [lc EXCEPT !.i = @ + 1, !.single_comp_lookups = Append(@, entry)])
                  ELSE [lc EXCEPT !.i = @ + 1, !.tuple_lookups = Append(@, entry)]

\* return [single_unit_lookups, single_comp_lookups, tuple_lookups]
LcReturn ==
    /\ lc.pc = "each"
    /\ (lc.i = Len(lc.lookups) \/ lc.i = Len(lc.lookups_buf))
    /\ lc' = [lc EXCEPT !.pc = "returned"]

\* no call of the functions below is under way
EvIdle == [pc |-> "idle"]

FunctionsIdle ==
    /\ lp = LpIdle
    /\ ev = EvIdle
    /\ pz = PzIdle
    /\ mw = MwIdle
    /\ lc = LcIdle

\* ---------------------------------------------------- orchestrator: Init
CacheStart ==
    /\ cache = [key \in ClassKeys |-> <<>>]
    /\ lock = 0
    /\ poisoned = FALSE
    /\ thr = [t \in Threads |-> IdleFrame]
    /\ live = [t \in Threads |-> EmptyBag]
    /\ current = [t \in Threads |-> 0]
    /\ allocated = {}
    /\ mem = [a \in Addrs |-> "undef"]

\* the call of create_proof_from_advices for a circuit with lookups cs;
\* let mut lookup_permuted_commitments = vec![C::identity(); lookups.len() * 2]
ProofStart(cs, h) ==
    /\ cs_lookups = cs
    /\ huge = h
    /\ pc = "instances"
    /\ idx = 0
    /\ transcript = <<>>
    /\ bg = [x \in Handles |-> NotSpawned]
    /\ loc = NoLocals
    /\ lookup_permuted_commitments = [j \in 1..(2 * NLookups) |-> Identity]
    /\ lookup_z_commitments = <<>>
    /\ chal = {}
    /\ early = {}
    /\ result = "running"
    /\ devfail = {}
    /\ nbig = 0

\* create_proof_from_advices is not called
ProofIdle ==
    /\ cs_lookups = <<>>
    /\ huge = FALSE
    /\ pc = "idle"
    /\ idx = 0
    /\ transcript = <<>>
    /\ bg = <<>>
    /\ loc = <<>>
    /\ lookup_permuted_commitments = <<>>
    /\ lookup_z_commitments = <<>>
    /\ chal = {}
    /\ early = {}
    /\ result = "idle"
    /\ devfail = {}
    /\ nbig = 0

InitCache ==
    /\ CacheStart
    /\ FunctionsIdle
    /\ ProofIdle

InitProof ==
    /\ CacheStart
    /\ FunctionsIdle
    /\ \E cs \in [LookupIds -> [len : {1, 2}, pure : BOOLEAN]], h \in BOOLEAN :
          ProofStart(cs, h)

\* everything but the function under study is at rest
Rest == CacheStart /\ ProofIdle

\* handle_lookup_pair is called with vectors of unusable_rows_start + 1 rows
InitLookupPair ==
    /\ Rest
    /\ ev = EvIdle
    /\ pz = PzIdle
    /\ mw = MwIdle
    /\ lc = LcIdle
    /\ \E u \in 1..MaxUsable :
          \E n \in {u, u + 1} :
             \E input \in [1..n -> Values], table \in [1..n -> Values] :
                lp = LpCall(input, table, u)

\* the challenges (beta, gamma) squeezed before the lookup products; the
\* second pair makes beta + 1 zero
LookupChallenges == {<<2, 3>>, <<12, 5>>}

\* *z = (beta + permuted_input_value) * (gamma + permuted_table_value)
LookupDenominator(l, beta, gamma, r) ==
    FMul(FAdd(beta, Row(l.permuted_input, r)), FAdd(gamma, Row(l.permuted_table, r)))

\* *z *= (beta + input_value) * (gamma + table_value)
LookupNumerator(l, beta, gamma, r) ==
    FMul(FAdd(beta, Row(l.input, r)), FAdd(gamma, Row(l.table, r)))

\* the product of rows 0..i of f
RECURSIVE ProductThrough(_, _)
ProductThrough(f, i) == IF i < 0 THEN 1 ELSE FMul(ProductThrough(f, i - 1), Row(f, i))

\* let mut tmp = one; for i in 0..=unusable_rows_start { swap(&mut tmp, &mut z[i]);
\* tmp = tmp * z[i]; }: row i receives the product of the rows before it
ProductBefore(f, i) == ProductThrough(f, i - 1)

\* generate lookup z (lines 606-640) for the pair handle_lookup_pair returned;
\* z has size rows and unusable_rows_start < size (line 322), ADD_RANDOM is
\* false so the rows after unusable_rows_start are zeroed
LpZ ==
    /\ lp.pc = "done"
    /\ Len(lp.input) > lp.u
    /\ \E ch \in LookupChallenges :
          LET beta == ch[1]
              gamma == ch[2]
              n == Len(lp.input)
              f == [j \in 1..n |->
                       FMul(FInv(LookupDenominator(lp, beta, gamma, j - 1)),
                            LookupNumerator(lp, beta, gamma, j - 1))]
          IN lp' = [lp EXCEPT !.pc = "z", !.beta = beta, !.gamma = gamma,
                              !.z = [j \in 1..n |->
                                        IF j - 1 <= lp.u THEN ProductBefore(f, j - 1) ELSE 0]]

NextLookupPair ==
    \/ LpPrepare /\ UNCHANGED notLp
    \/ LpRow /\ UNCHANGED notLp
    \/ LpCheck /\ UNCHANGED notLp
    \/ LpZ /\ UNCHANGED notLp

SpecLookupPair == InitLookupPair /\ [][NextLookupPair]_vars

\* the domain size exponent k, the extended exponents and the value of y of
\* the passes studied
EvalK == 1
ExtendedKs == {EvalK + 1, EvalK + 2}
YValues == {2}

\* the device calls of a pass in which none fails
CallsOf(expr) == Len(evaluate_prove_expr(expr, World(2, EvalK, EvalK + 1, 0)).w.calls)

\* evaluate_h_gates is about to evaluate one gate expression; at most one of
\* the device calls of the pass fails
InitEval ==
    /\ Rest
    /\ lp = LpIdle
    /\ pz = PzIdle
    /\ mw = MwIdle
    /\ lc = LcIdle
    /\ \E expr \in Exprs, y \in YValues, extended_k \in ExtendedKs :
          \E failAt \in 0..(CallsOf(expr) + 2) :
             ev = EvCall(expr, World(y, EvalK, extended_k, failAt))

NextEval ==
    \/ EvEvaluate /\ UNCHANGED notEv
    \/ EvMatch /\ UNCHANGED notEv
    \/ EvCopy /\ UNCHANGED notEv

SpecEval == InitEval /\ [][NextEval]_vars

\* lookup_classify is called as create_proof_from_advices calls it: one
\* buffer per lookup of the constraint system
InitClassify ==
    /\ Rest
    /\ lp = LpIdle
    /\ ev = EvIdle
    /\ pz = PzIdle
    /\ mw = MwIdle
    /\ \E n \in 0..(NLookups + 1) :
          \E lookups \in [1..n -> [input_expressions : ExprLists,
                                   table_expressions : ExprLists]] :
             lc = LcCall(lookups, [j \in 1..n |-> [buf |-> j - 1]])

NextClassify ==
    \/ LcEach /\ UNCHANGED notLc
    \/ LcReturn /\ UNCHANGED notLc

SpecClassify == InitClassify /\ [][NextClassify]_vars

\* the column values, the permuted labels and the challenges of the circuits
\* studied
ValueChoices == {<<1, 2, 3, 4>>, <<0, 5, 5, 7>>}
PermutedChoices == {<<1, 8, 12, 5>>, <<8, 3, 12, 11>>}
ChallengeChoices == {<<2, 3>>}

\* permutation_products_handler starts on a circuit whose permutation columns
\* make NChunks chunks
InitPermutation ==
    /\ Rest
    /\ lp = LpIdle
    /\ ev = EvIdle
    /\ mw = MwIdle
    /\ lc = LcIdle
    /\ \E chunk_len \in {1, 2}, ch \in ChallengeChoices, u \in 1..(PzSize - 1) :
          \E n \in ((NChunks - 1) * chunk_len + 1)..(NChunks * chunk_len) :
             \E columns \in [1..n -> [values : ValueChoices, permuted : PermutedChoices]] :
                pz = PzCall(columns, chunk_len, ch[1], ch[2], u)

NextPermutation ==
    \/ PzChunk /\ UNCHANGED notPz
    \/ PzScan /\ UNCHANGED notPz
    \/ PzReturn /\ UNCHANGED notPz

SpecPermutation == InitPermutation /\ [][NextPermutation]_vars

\* the points, the scalars and the lengths of the inputs studied
PointChoices == {1, 7}
ScalarChoices == {{<<0, 1>>}, {<<0, 255>>, <<1, 2>>, <<31, 3>>}, {<<5, 128>>, <<30, 7>>}}
Lens == {1, 3}

InitMsm ==
    /\ Rest
    /\ lp = LpIdle
    /\ ev = EvIdle
    /\ pz = PzIdle
    /\ lc = LcIdle
    /\ \E groups \in 1..MaxGroups, len \in Lens :
          \E p \in [1..len -> PointChoices], s \in [1..len -> ScalarChoices] :
             mw = MwCall(groups, p, s)

NextMsm ==
    \/ MwMsm /\ UNCHANGED notMw
    \/ MwSum /\ UNCHANGED notMw
    \/ MwTop /\ UNCHANGED notMw
    \/ MwLadder /\ UNCHANGED notMw
    \/ MwAssert /\ UNCHANGED notMw

SpecMsm == InitMsm /\ [][NextMsm]_vars

\* ------------------------------------------------------------ cache: steps
Goto(t, p) == thr' = [thr EXCEPT ![t].pc = p]

\* a panic ends the thread; a guard it holds is released and poisons the mutex
Panic(t) ==
    /\ thr' = [thr EXCEPT ![t] = [IdleFrame EXCEPT !.pc = "panicked"]]
    /\ poisoned' = (poisoned \/ lock = t)
    /\ lock' = IF lock = t THEN 0 ELSE lock

\* the buffers owned or being acquired, over all threads
AcquirePcs == {"a_memset", "a_ctx", "a_ret", "c_ctx"}

RECURSIVE SumLive(_)
SumLive(S) ==
    IF S = {} THEN 0
    ELSE LET t == CHOOSE x \in S : TRUE
         IN BagCardinality(live[t]) + (IF thr[t].pc \in AcquirePcs THEN 1 ELSE 0)
            + SumLive(S \ {t})

Held == SumLive(Threads)

\* alloc_device_buffer::<T>(n) (zero) or alloc_device_buffer_from_slice of n
\* elements (~zero) is called on device d, with e = size_of::<T>(), and
\* _alloc_device_buffer runs its first block:
\*   let size = size * mem::size_of::<T>();
\*   { let mut cache = CUDA_BUFFER_CACHE.lock().unwrap();
\*     let arr = cache.entry((self.device, size)).or_insert(vec![]);
\*     if arr.len() > 0 { ..pop.. } }
\* The guard is taken when the mutex is free; unwrap panics when it is poisoned.
\* On a hit the guard stays alive up to the return; on a miss the block ends.
Acquire(t, d, n, e, z) ==
    /\ thr[t].pc = "idle"
    /\ Held < MaxLive
    /\ lock = 0
    /\ IF poisoned
         THEN /\ Panic(t)
              /\ UNCHANGED cache
         ELSE LET b == [ptr |-> NULL, device |-> d, size |-> n * e]
                  key == Key(b)
                  arr == Entry(cache, key)
                  f == [pc |-> "a_ctx", buf |-> b, zero |-> z, after |-> "none", nfree |-> 0]
              IN /\ IF Len(arr) > 0
                      THEN /\ cache' = [cache EXCEPT ![key] = Front(arr)]
                           /\ thr' = [thr EXCEPT ![t] =
                                         [f EXCEPT !.buf.ptr = Last(arr),
                                                   !.pc = IF z THEN "a_memset" ELSE "a_ret"]]
                           /\ lock' = t
                      ELSE /\ UNCHANGED cache
                           /\ lock' = 0
                           /\ thr' = [thr EXCEPT ![t] = f]
                 /\ UNCHANGED poisoned
    /\ UNCHANGED <<live, current, allocated, mem>>
    /\ UNCHANGED <<pvars, fvars>>

\* if zero { cuda_runtime_sys::cudaMemset(ret.ptr(), 0, size); }   result unused
AMemset(t) ==
    /\ thr[t].pc = "a_memset"
    /\ \E ok \in (IF thr[t].buf.ptr \in allocated THEN {TRUE, FALSE} ELSE {FALSE}) :
          /\ mem' = IF ok THEN [mem EXCEPT ![thr[t].buf.ptr] = "zero"] ELSE mem
    /\ Goto(t, "a_ret")
    /\ UNCHANGED <<cache, lock, poisoned, live, current, allocated>>
    /\ UNCHANGED <<pvars, fvars>>

\* acitve_ctx(): cudaSetDevice(self.device) succeeds (ok) or fails.  The
\* thread local ACITVE_CUDA_DEVICE it writes first is read by nothing else and
\* is left out.
ActiveCtx(t, ok) ==
    current' = IF ok THEN [current EXCEPT ![t] = thr[t].buf.device] ELSE current

\* Err(Error::DeviceError(..)) is on its way to the caller, who gets no buffer
ErrFrame == [IdleFrame EXCEPT !.pc = "a_err"]

\* the drop of thr[t].buf has ended: back in the caller (a release), or
\* to_result has dropped the value of a failed call and returns Err
DropDone(t) ==
    thr' = [thr EXCEPT ![t] = IF thr[t].after # "none" THEN ErrFrame ELSE IdleFrame]

\* return Ok(ret) of _alloc_device_buffer; the guard of the hit path is dropped here
ARet(t) ==
    /\ thr[t].pc = "a_ret"
    /\ lock' = IF lock = t THEN 0 ELSE lock
    /\ IF thr[t].zero
         THEN /\ thr' = [thr EXCEPT ![t] = IdleFrame]
              /\ live' = [live EXCEPT ![t] = @ (+) SetToBag({thr[t].buf})]
         ELSE /\ Goto(t, "c_ctx")
              /\ UNCHANGED live
    /\ UNCHANGED <<cache, poisoned, current, allocated, mem>>
    /\ UNCHANGED <<pvars, fvars>>

\* the caller has the Err
AErr(t) ==
    /\ thr[t].pc = "a_err"
    /\ thr' = [thr EXCEPT ![t] = IdleFrame]
    /\ UNCHANGED <<cache, lock, poisoned, live, current, allocated, mem>>
    /\ UNCHANGED <<pvars, fvars>>

\* the miss path of _alloc_device_buffer:
\*   self.acitve_ctx()?;
\*   let mut ptr = 0 as *mut c_void;
\*   let res = cudaMalloc(&mut ptr, size);
\*   to_result(CudaDeviceBufRaw { ptr, .. }, res, "fail to alloc device memory")
\* On success the memory holds whatever the device left there.  On failure
\* ptr is still null, and to_result drops the CudaDeviceBufRaw it was given.
AMalloc(t) ==
    /\ thr[t].pc = "a_ctx"
    /\ \/ /\ ActiveCtx(t, FALSE)
          /\ thr' = [thr EXCEPT ![t] = ErrFrame]
          /\ UNCHANGED <<allocated, mem>>
       \/ /\ ActiveCtx(t, TRUE)
          /\ \/ \E a \in Addrs \ allocated : \E c \in {"zero", "dirty"} :
                   /\ allocated' = allocated \cup {a}
                   /\ mem' = [mem EXCEPT ![a] = c]
                   /\ thr' = [thr EXCEPT ![t].buf.ptr = a, ![t].pc = "a_ret"]
             \/ /\ thr' = [thr EXCEPT ![t].pc = DropEntry(thr[t].buf),
                                      ![t].after = "alloc_err"]
                /\ UNCHANGED <<allocated, mem>>
    /\ UNCHANGED <<cache, lock, poisoned, live>>
    /\ UNCHANGED <<pvars, fvars>>

\* alloc_device_buffer_from_slice: self.copy_from_host_to_device(&buf, data)?
\*   self.acitve_ctx()?; cudaMemcpyAsync(dst.ptr(), ..); Ok(buf)
\* An Err of either call drops buf on the way out.
CCopy(t) ==
    /\ thr[t].pc = "c_ctx"
    /\ \/ /\ \E ok \in BOOLEAN : ActiveCtx(t, ok)
          /\ thr' = [thr EXCEPT ![t].pc = DropEntry(thr[t].buf), ![t].after = "copy_err"]
          /\ UNCHANGED <<mem, live>>
       \/ /\ thr[t].buf.ptr \in allocated
          /\ ActiveCtx(t, TRUE)
          /\ mem' = [mem EXCEPT ![thr[t].buf.ptr] = "dirty"]
          /\ thr' = [thr EXCEPT ![t] = IdleFrame]
          /\ live' = [live EXCEPT ![t] = @ (+) SetToBag({thr[t].buf})]
    /\ UNCHANGED <<cache, lock, poisoned, allocated>>
    /\ UNCHANGED <<pvars, fvars>>

\* the owner lets go of one of its buffers: Drop for CudaDeviceBufRaw starts
Release(t, b) ==
    /\ thr[t].pc = "idle"
    /\ BagIn(b, live[t])
    /\ thr' = [thr EXCEPT ![t] = [pc |-> DropEntry(b), buf |-> b,
                                  zero |-> FALSE, after |-> "none", nfree |-> 0]]
    /\ live' = [live EXCEPT ![t] = @ (-) SetToBag({b})]
    /\ UNCHANGED <<cache, lock, poisoned, current, allocated, mem>>
    /\ UNCHANGED <<pvars, fvars>>

\* drop, size < HUGE_BUFFER_SIZE:
\*   let mut cache = CUDA_BUFFER_CACHE.lock().unwrap();
\*   let arr = cache.entry(..).or_insert(vec![]);
\*   assert!(!arr.contains(&ptr)); arr.push(ptr);
\* A failed assertion unwinds with the guard alive, which poisons the mutex.
DPush(t) ==
    /\ thr[t].pc = "d_lock"
    /\ lock = 0
    /\ IF poisoned
         THEN /\ Panic(t)
              /\ UNCHANGED cache
         ELSE LET key == Key(thr[t].buf)
                  arr == Entry(cache, key)
              IN IF Contains(arr, thr[t].buf.ptr)
                   THEN /\ UNCHANGED cache
                        /\ thr' = [thr EXCEPT ![t] = [IdleFrame EXCEPT !.pc = "panicked"]]
                        /\ poisoned' = TRUE
                        /\ lock' = 0
                   ELSE /\ cache' = [cache EXCEPT ![key] = Append(arr, thr[t].buf.ptr)]
                        /\ DropDone(t)
                        /\ UNCHANGED <<lock, poisoned>>
    /\ UNCHANGED <<live, current, allocated, mem>>
    /\ UNCHANGED <<pvars, fvars>>

\* drop, size >= HUGE_BUFFER_SIZE:
\*   self.device().acitve_ctx().unwrap();
\*   let res = cudaFreeAsync(self.ptr(), 0); to_result((), res, ..).unwrap();
\* Either unwrap panics on an error; the second one after the free was issued.
DFree(t) ==
    /\ thr[t].pc = "d_ctx"
    /\ \/ /\ ActiveCtx(t, FALSE)
          /\ Panic(t)
          /\ UNCHANGED <<allocated, mem>>
       \/ /\ ActiveCtx(t, TRUE)
          /\ \/ /\ allocated' = allocated \ {thr[t].buf.ptr}
                /\ mem' = [a \in Addrs |-> IF a = thr[t].buf.ptr THEN "undef" ELSE mem[a]]
                /\ thr' = [thr EXCEPT ![t].pc = "d_ret", ![t].nfree = @ + 1]
                /\ UNCHANGED <<lock, poisoned>>
             \/ /\ Panic(t)
                /\ UNCHANGED <<allocated, mem>>
    /\ UNCHANGED <<cache, live>>
    /\ UNCHANGED <<pvars, fvars>>

\* the end of the free branch of drop
DRet(t) ==
    /\ thr[t].pc = "d_ret"
    /\ DropDone(t)
    /\ UNCHANGED <<cache, lock, poisoned, live, current, allocated, mem>>
    /\ UNCHANGED <<pvars, fvars>>

NextCache ==
    \E t \in Threads :
       \/ \E d \in Devices, n \in Counts, e \in ElemSizes, z \in BOOLEAN : Acquire(t, d, n, e, z)
       \/ AMemset(t)
       \/ AMalloc(t)
       \/ ARet(t)
       \/ AErr(t)
       \/ CCopy(t)
       \/ \E b \in BagToSet(live[t]) : Release(t, b)
       \/ DPush(t)
       \/ DFree(t)
       \/ DRet(t)

SpecCache == InitCache /\ [][NextCache]_vars

\* the devices of the machine (cudaGetDeviceCount() = 2); the handles the
\* cache is used through are those of Devices
RuntimeDevices == {0, 1}

\* the threads come to the cache with any device of the machine current:
\* cudaSetDevice is per thread, and other handles were used on them before
InitDevices ==
    /\ cache = [key \in ClassKeys |-> <<>>]
    /\ lock = 0
    /\ poisoned = FALSE
    /\ thr = [t \in Threads |-> IdleFrame]
    /\ live = [t \in Threads |-> EmptyBag]
    /\ current \in [Threads -> RuntimeDevices]
    /\ allocated = {}
    /\ mem = [a \in Addrs |-> "undef"]
    /\ FunctionsIdle
    /\ ProofIdle

SpecDevices == InitDevices /\ [][NextCache]_vars

\* ------------------------------------------------ orchestrator: steps
\* the control part of a step of the calling thread
Ctl(pc2, idx2, res2, df2, bg2, nb2) ==
    /\ pc' = pc2
    /\ idx' = idx2
    /\ result' = res2
    /\ devfail' = df2
    /\ bg' = bg2
    /\ nbig' = nb2

\* on to the next statement, owning nb big buffers
Continue(nb) == Ctl(NextStage(pc), 0, result, devfail, bg, nb)
\* one iteration of the loop at pc is done
Loop(nb) == Ctl(pc, idx + 1, result, devfail, bg, nb)
\* the `?` operator on Err(DeviceError): return the error to the caller
Propagate(kind) == Ctl("exit_err", 0, result, devfail \cup {kind}, bg, nbig)
\* .unwrap() on Err(DeviceError): the calling thread panics and unwinds
Unwrap(kind) == Ctl("returned", 0, "panic", devfail \cup {kind}, Detach(bg), 0)

At(s) == pc = s /\ result = "running"

data == <<transcript, loc, lookup_permuted_commitments, lookup_z_commitments, chal, early>>
fixed == <<cvars, cs_lookups, huge, fvars>>

\* halo2_proofs::plonk::create_single_instances(params, &pk, &[instances], transcript)
CreateSingleInstances ==
    /\ At("instances")
    /\ transcript' = Append(transcript, External)
    /\ Continue(nbig)
    /\ UNCHANGED <<loc, lookup_permuted_commitments, lookup_z_commitments, chal, early, fixed>>

\* let device = CudaDevice::get_device(0).unwrap();
GetDevice ==
    /\ At("get_device")
    /\ \/ Continue(nbig)
       \/ Unwrap("get_device")
    /\ UNCHANGED <<data, fixed>>

\* device.pin_memory(&mut x[..])? over the advice columns
PinMemory ==
    /\ At("pin")
    /\ \/ Continue(nbig)
       \/ Propagate("pin")
    /\ UNCHANGED <<data, fixed>>

\* advices.iter().map(|x| device.alloc_device_buffer_from_slice(x)).collect()?
AllocAdvice ==
    /\ At("alloc_advice")
    /\ \/ Continue(nbig + NAdvice)
       \/ Propagate("alloc")
    /\ UNCHANGED <<data, fixed>>

\* device.alloc_device_buffer_from_slice(&params.g_lagrange[..]).unwrap()
AllocGLagrange ==
    /\ At("alloc_g")
    /\ \/ Continue(nbig + 1)
       \/ Unwrap("alloc")
    /\ UNCHANGED <<data, fixed>>

\* let lookup_handler = thread::spawn(..)
SpawnLookup ==
    /\ At("spawn_lookup")
    /\ Ctl(NextStage(pc), 0, result, devfail,
           [bg EXCEPT !["lookup"] = [state |-> "running", handle |-> "held", val |-> <<>>]],
           nbig)
    /\ UNCHANGED <<data, fixed>>

\* for s_buf in advices_device_buf {
\*     let commitment = msm(&device, &g_lagrange_buf, &s_buf, size)?;
\*     transcript.write_point(commitment).unwrap(); }
\* s_buf is dropped at the end of its iteration; the drop of a buffer of
\* HUGE_BUFFER_SIZE or more unwraps the result of cudaFreeAsync.
AdviceMsm ==
    /\ At("advice_msm")
    /\ IF idx < NAdvice
         THEN \/ /\ Propagate("msm")
                 /\ UNCHANGED transcript
              \/ /\ transcript' = Append(transcript, Write("advice", idx))
                 /\ \/ Loop(nbig - 1)
                    \/ huge /\ Unwrap("free")
         ELSE /\ Continue(nbig)
              /\ UNCHANGED transcript
    /\ UNCHANGED <<loc, lookup_permuted_commitments, lookup_z_commitments, chal, early, fixed>>

\* let c = *transcript.squeeze_challenge_scalar::<()>();
SqueezeChallenge(c) ==
    /\ transcript' = Append(transcript, Squeeze(c))
    /\ chal' = chal \cup {c}
    /\ Continue(nbig)
    /\ UNCHANGED <<loc, lookup_permuted_commitments, lookup_z_commitments, early, fixed>>

SqueezeTheta == At("theta") /\ SqueezeChallenge("theta")

\* handler.join().unwrap(): blocks until thread h has ended, moves its value
\* out into the locals, and panics if the thread has panicked
Join(h, locals) ==
    /\ bg[h].state \in {"finished", "panicked"}
    /\ bg[h].handle = "held"
    /\ LET joined == [bg EXCEPT ![h].handle = "joined"]
       IN IF bg[h].state = "finished"
            THEN /\ Ctl(NextStage(pc), 0, result, devfail, joined, nbig)
                 /\ loc' = locals
            ELSE /\ Ctl("returned", 0, "panic", devfail, Detach(joined), 0)
                 /\ UNCHANGED loc
    /\ UNCHANGED <<transcript, lookup_permuted_commitments, lookup_z_commitments, chal,
                   early, fixed>>

\* let (mut single_unit_lookups, mut single_comp_lookups, tuple_lookups) =
\*     lookup_handler.join().unwrap();
JoinLookup ==
    /\ At("join_lookup")
    /\ Join("lookup",
            [loc EXCEPT !.single_unit_lookups = bg["lookup"].val[1],
                        !.single_comp_lookups = bg["lookup"].val[2],
                        !.tuple_lookups = bg["lookup"].val[3],
                        !.defd = @ \cup {"single_unit_lookups", "single_comp_lookups",
                                         "tuple_lookups"}])

\* let tuple_lookup_handler = thread::spawn(move || ..): the closure takes
\* tuple_lookups and a copy of theta
SpawnTuple ==
    /\ At("spawn_tuple")
    /\ Ctl(NextStage(pc), 0, result, devfail,
           [bg EXCEPT !["tuple"] = [state |-> "running", handle |-> "held",
                                    val |-> <<loc.tuple_lookups>>]],
           nbig)
    /\ early' = early \cup Missing({"tuple_lookups"}, {"theta"})
    /\ loc' = [loc EXCEPT !.tuple_lookups = <<>>, !.defd = @ \ {"tuple_lookups"}]
    /\ UNCHANGED <<transcript, lookup_permuted_commitments, lookup_z_commitments, chal, fixed>>

\* for (i, (permuted_input, permuted_table, _, _, _)) in list.iter() {
\*     let permuted_input_buf = device.alloc_device_buffer_from_slice(..)?;
\*     let permuted_table_buf = device.alloc_device_buffer_from_slice(..)?;
\*     lookup_permuted_commitments[i * 2] = msm(.., &permuted_input_buf, size)?;
\*     lookup_permuted_commitments[i * 2 + 1] = msm(.., &permuted_table_buf, size)?; }
\* The two buffers are dropped at the end of the iteration.
LookupMsm(name) ==
    LET list == loc[name]
    IN /\ early' = early \cup Missing({name}, {})
       /\ IF idx < Len(list)
            THEN LET i == list[idx + 1]
                 IN \/ /\ \E kind \in {"alloc", "msm"} : Propagate(kind)
                       /\ UNCHANGED lookup_permuted_commitments
                    \/ /\ lookup_permuted_commitments' =
                             [lookup_permuted_commitments EXCEPT
                                 ![i * 2 + 1] = Commitment("permuted_input", i),
                                 ![i * 2 + 2] = Commitment("permuted_table", i)]
                       /\ \/ Loop(nbig)
                          \/ huge /\ Unwrap("free")
            ELSE /\ Continue(nbig)
                 /\ UNCHANGED lookup_permuted_commitments
       /\ UNCHANGED <<transcript, loc, lookup_z_commitments, chal, fixed>>

SingleUnitMsm == At("unit_msm") /\ LookupMsm("single_unit_lookups")
SingleCompMsm == At("comp_msm") /\ LookupMsm("single_comp_lookups")

\* let mut tuple_lookups = tuple_lookup_handler.join().unwrap();
JoinTuple ==
    /\ At("join_tuple")
    /\ Join("tuple", [loc EXCEPT !.tuple_lookups = bg["tuple"].val[1],
                                 !.defd = @ \cup {"tuple_lookups"}])

TupleMsm == At("tuple_msm") /\ LookupMsm("tuple_lookups")

\* the writes of a vector of commitments, front to back
Writes(cms) == [j \in 1..Len(cms) |-> Write(cms[j].what, cms[j].i)]

\* for commitment in lookup_permuted_commitments.into_iter() {
\*     transcript.write_point(commitment).unwrap(); }
WritePermuted ==
    /\ At("write_permuted")
    /\ transcript' = transcript \o Writes(lookup_permuted_commitments)
    /\ Continue(nbig)
    /\ UNCHANGED <<loc, lookup_permuted_commitments, lookup_z_commitments, chal, early, fixed>>

SqueezeBeta == At("beta") /\ SqueezeChallenge("beta")
SqueezeGamma == At("gamma") /\ SqueezeChallenge("gamma")

\* lookups.append(unit); lookups.append(comp); lookups.append(tuple);
\* lookups.sort_by(index); then z of every lookup is built from beta and gamma
SortLookups ==
    /\ At("sort_lookups")
    /\ loc' = [loc EXCEPT
                 !.lookups = SortByIndex(loc.single_unit_lookups \o loc.single_comp_lookups
                                             \o loc.tuple_lookups),
                 !.single_unit_lookups = <<>>,
                 !.single_comp_lookups = <<>>,
                 !.tuple_lookups = <<>>,
                 !.defd = @ \cup {"lookups"}]
    /\ early' = early \cup Missing({"single_unit_lookups", "single_comp_lookups",
                                    "tuple_lookups"}, {"beta", "gamma"})
    /\ Continue(nbig)
    /\ UNCHANGED <<transcript, lookup_permuted_commitments, lookup_z_commitments, chal, fixed>>

\* a statement made of device calls whose errors are all passed on with `?`
DeviceStep(kind) ==
    /\ \/ Continue(nbig)
       \/ Propagate(kind)
    /\ UNCHANGED <<data, fixed>>

\* let (intt_omegas_buf, intt_pq_buf) = ntt_prepare(&device, omega_inv, k)?;
NttPrepare == At("ntt_prepare") /\ DeviceStep("ntt_prepare")

\* let divisor_buf = device.alloc_device_buffer_from_slice(&[ifft_divisor])?;
AllocDivisor == At("divisor") /\ DeviceStep("alloc")

\* let permutation_products_handler = thread::spawn(move || ..): the closure
\* takes copies of beta and gamma
SpawnPerm ==
    /\ At("spawn_perm")
    /\ Ctl(NextStage(pc), 0, result, devfail,
           [bg EXCEPT !["perm"] = [state |-> "running", handle |-> "held", val |-> <<>>]],
           nbig)
    /\ early' = early \cup Missing({}, {"beta", "gamma"})
    /\ UNCHANGED <<transcript, loc, lookup_permuted_commitments, lookup_z_commitments, chal,
                   fixed>>

\* device.alloc_device_buffer::<C::ScalarExt>(size)?: an error of the
\* allocation is passed on; on the recycled path the result of cudaMemset is
\* not looked at, so its failure goes unnoticed
AllocZeroed ==
    /\ \/ Continue(nbig + 1)
       \/ Propagate("alloc")
       \/ Ctl(NextStage(pc), 0, result, devfail \cup {"memset"}, bg, nbig + 1)
    /\ UNCHANGED <<data, fixed>>

AllocTmpBuf == At("alloc_tmp") /\ AllocZeroed
AllocNttBuf == At("alloc_ntt") /\ AllocZeroed

\* for (permuted_input, permuted_table, z) in lookups.iter_mut() {
\*     device.copy_from_host_to_device(&ntt_buf, &z[..])?;
\*     let commitment = msm_with_groups(..)?;
\*     lookup_z_commitments.push(commitment);
\*     intt_raw(..)?; device.copy_from_device_to_host(..)?; .. }
LookupZ ==
    /\ At("lookup_z")
    /\ early' = early \cup Missing({"lookups"}, {})
    /\ IF idx < Len(loc.lookups)
         THEN \/ /\ \E kind \in {"copy", "msm"} : Propagate(kind)
                 /\ UNCHANGED lookup_z_commitments
              \/ /\ lookup_z_commitments' =
                       Append(lookup_z_commitments, Commitment("lookup_z", loc.lookups[idx + 1]))
                 /\ \/ Loop(nbig)
                    \/ \E kind \in {"intt", "copy"} : Propagate(kind)
         ELSE /\ Continue(nbig)
              /\ UNCHANGED lookup_z_commitments
    /\ UNCHANGED <<transcript, loc, lookup_permuted_commitments, chal, fixed>>

\* let mut permutation_products = permutation_products_handler.join().unwrap();
JoinPerm ==
    /\ At("join_perm")
    /\ Join("perm", [loc EXCEPT !.permutation_products = bg["perm"].val[1],
                                !.defd = @ \cup {"permutation_products"}])

\* for (i, z) in permutation_products.iter_mut().enumerate() {
\*     device.copy_from_host_to_device(&ntt_buf, &z[..])?;
\*     let commitment = msm_with_groups(..)?;
\*     transcript.write_point(commitment).unwrap();
\*     intt_raw(..)?; device.copy_from_device_to_host(&mut z[..], &ntt_buf)?; }
PermutationZ ==
    /\ At("perm_z")
    /\ early' = early \cup Missing({"permutation_products"}, {})
    /\ IF idx < Len(loc.permutation_products)
         THEN \/ /\ \E kind \in {"copy", "msm"} : Propagate(kind)
                 /\ UNCHANGED transcript
              \/ /\ transcript' =
                       Append(transcript,
                              Write("permutation_product", loc.permutation_products[idx + 1]))
                 /\ \/ Loop(nbig)
                    \/ \E kind \in {"intt", "copy"} : Propagate(kind)
         ELSE /\ Continue(nbig)
              /\ UNCHANGED transcript
    /\ UNCHANGED <<loc, lookup_permuted_commitments, lookup_z_commitments, chal, fixed>>

\* for (i, commitment) in lookup_z_commitments.into_iter().enumerate() {
\*     transcript.write_point(commitment).unwrap(); }
WriteLookupZ ==
    /\ At("write_z")
    /\ transcript' = transcript \o Writes(lookup_z_commitments)
    /\ Continue(nbig)
    /\ UNCHANGED <<loc, lookup_permuted_commitments, lookup_z_commitments, chal, early, fixed>>

\* halo2_proofs::plonk::vanishing::Argument::commit(params, domain, OsRng, transcript)
VanishingCommit ==
    /\ At("vanishing")
    /\ transcript' = Append(transcript, External)
    /\ Continue(nbig)
    /\ UNCHANGED <<loc, lookup_permuted_commitments, lookup_z_commitments, chal, early, fixed>>

SqueezeY == At("y") /\ SqueezeChallenge("y")

\* let (ntt_omegas_buf, ntt_pq_buf) = ntt_prepare(&device, omega, k)?;
NttPrepareH == At("ntt_prepare_h") /\ DeviceStep("ntt_prepare")

\* for advices in Arc::get_mut_unchecked(&mut advices).iter_mut() {
\*     device.copy_from_host_to_device(..)?; intt_raw(..)?;
\*     device.copy_from_device_to_host(..)?; }
AdviceIntt ==
    /\ At("advice_intt")
    /\ IF idx < NAdvice
         THEN \/ Loop(nbig)
              \/ \E kind \in {"copy", "intt"} : Propagate(kind)
         ELSE Continue(nbig)
    /\ UNCHANGED <<data, fixed>>

\* let h_poly = evaluate_h_gates(.., permutation_products, y, beta, gamma, theta)?;
EvaluateHGates ==
    /\ At("eval_h")
    /\ early' = early \cup Missing({"permutation_products"}, {"y", "beta", "gamma", "theta"})
    /\ \/ Continue(nbig)
       \/ Propagate("eval_h")
    /\ UNCHANGED <<transcript, loc, lookup_permuted_commitments, lookup_z_commitments, chal,
                   fixed>>

\* Ok(()) or the Err of a `?`: the locals go out of scope.  JoinHandles still
\* held are dropped; a device buffer of HUGE_BUFFER_SIZE or more is freed by
\* its drop, which unwraps the result of cudaFreeAsync.
Return ==
    /\ pc \in {"exit_ok", "exit_err"}
    /\ result = "running"
    /\ \/ Ctl("returned", 0, IF pc = "exit_ok" THEN "ok" ELSE "err", devfail, Detach(bg), 0)
       \/ /\ huge
          /\ nbig > 0
          /\ Ctl("returned", 0, "panic", devfail \cup {"free"}, Detach(bg), 0)
    /\ UNCHANGED <<data, fixed>>

\* what the closure of thread h returns
ThreadValue(h) ==
    CASE h = "lookup" -> lookup_classify(cs_lookups)
      [] h = "tuple" -> bg[h].val
      [] h = "perm" -> <<[j \in 1..NChunks |-> j - 1]>>

\* the closure of background thread h runs to its end
ThreadFinish(h) ==
    /\ bg[h].state = "running"
    /\ bg' = [bg EXCEPT ![h].state = "finished", ![h].val = ThreadValue(h)]
    /\ UNCHANGED <<pc, idx, result, devfail, nbig, data, fixed>>

\* evaluate_expr / evaluate_exprs in a lookup thread meet a selector:
\* panic!("virtual selectors are removed during optimization")
ThreadPanic(h) ==
    /\ h \in {"lookup", "tuple"}
    /\ bg[h].state = "running"
    /\ bg' = [bg EXCEPT ![h].state = "panicked"]
    /\ UNCHANGED <<pc, idx, result, devfail, nbig, data, fixed>>

NextProof ==
    \/ CreateSingleInstances
    \/ GetDevice
    \/ PinMemory
    \/ AllocAdvice
    \/ AllocGLagrange
    \/ SpawnLookup
    \/ AdviceMsm
    \/ SqueezeTheta
    \/ JoinLookup
    \/ SpawnTuple
    \/ SingleUnitMsm
    \/ SingleCompMsm
    \/ JoinTuple
    \/ TupleMsm
    \/ WritePermuted
    \/ SqueezeBeta
    \/ SqueezeGamma
    \/ SortLookups
    \/ NttPrepare
    \/ AllocDivisor
    \/ SpawnPerm
    \/ AllocTmpBuf
    \/ AllocNttBuf
    \/ LookupZ
    \/ JoinPerm
    \/ PermutationZ
    \/ WriteLookupZ
    \/ VanishingCommit
    \/ SqueezeY
    \/ NttPrepareH
    \/ AdviceIntt
    \/ EvaluateHGates
    \/ Return
    \/ \E h \in Handles : ThreadFinish(h)
    \/ \E h \in Handles : ThreadPanic(h)

SpecProof == InitProof /\ [][NextProof]_vars

\* ----------------------------------------------------- cache: properties
\* the addresses of one pool class
PoolAddrs(c, key) == c[key]

\* positions of a thread inside Drop for CudaDeviceBufRaw
DropPcs == {"d_lock", "d_ctx", "d_ret"}

\* positions at which the next step of the thread is a call into the device
DeviceCallPcs == {"a_memset", "a_ctx", "c_ctx", "d_ctx"}

\* positions at which the thread holds a CudaDeviceBufRaw it has built and not yet handed over
BuiltPcs == {"a_memset", "a_ret", "c_ctx"}

\* how many live buffers of class key hold address a
RECURSIVE HoldersIn(_, _, _)
HoldersIn(S, key, a) ==
    IF S = {} THEN 0
    ELSE LET t == CHOOSE x \in S : TRUE
             b == [ptr |-> a, device |-> key[1], size |-> key[2]]
         IN CopiesIn(b, live[t])
            + (IF thr[t].pc \in BuiltPcs /\ thr[t].buf = b THEN 1 ELSE 0)
            + HoldersIn(S \ {t}, key, a)

Holders(key, a) == HoldersIn(Threads, key, a)

\* C1 (as claimed): in every class, no address is held by two live buffers
\* at the same time, and no address of the pool is held by a live buffer.
C1_NoSharedAddress ==
    \A key \in ClassKeys : \A a \in {NULL} \cup Addrs :
        /\ Holders(key, a) <= 1
        /\ Contains(PoolAddrs(cache, key), a) => Holders(key, a) = 0

\* C2 (as claimed): whenever a release is about to run its duplicate check
\* (the mutex is free and sound), the address it pushes is not in its class.
C2_AssertionHolds ==
    \A t \in Threads :
        (thr[t].pc = "d_lock" /\ lock = 0 /\ ~poisoned)
            => ~Contains(PoolAddrs(cache, Key(thr[t].buf)), thr[t].buf.ptr)

\* C3 (as claimed): the steps by which a call whose device allocation failed
\* gets back to its caller leave the addresses of every pool class as they were.
C3_FailedAllocKeepsPool ==
    [][\A t \in Threads :
          (thr[t].after = "alloc_err" /\ thr'[t] # thr[t])
              => \A key \in ClassKeys : PoolAddrs(cache', key) = PoolAddrs(cache, key)]_vars

\* C4: each step of a release of a buffer below HUGE_BUFFER_SIZE issues no
\* device free and, when the release ends, has appended the buffer's address
\* to its own pool class and changed no other class; each step of a release of
\* a buffer at or above HUGE_BUFFER_SIZE leaves the pool unchanged, and the
\* release ends after exactly one cudaFreeAsync.
C4_ReleaseEffect ==
    [][\A t \in Threads :
          (thr[t].pc \in DropPcs /\ thr'[t] # thr[t]) =>
              LET b == thr[t].buf
                  ended == thr'[t].pc \in {"idle", "a_err"}
              IN IF b.size < HUGE_BUFFER_SIZE
                   THEN /\ thr[t].nfree = 0
                        /\ thr'[t].pc # "d_ret"
                        /\ allocated' = allocated
                        /\ ended =>
                             \A key \in ClassKeys :
                                 PoolAddrs(cache', key) =
                                     IF key = Key(b) THEN Append(PoolAddrs(cache, key), b.ptr)
                                                     ELSE PoolAddrs(cache, key)
                   ELSE /\ cache' = cache
                        /\ ended => (thr[t].pc = "d_ret" /\ thr[t].nfree = 1)
                        /\ thr'[t].pc = "d_ret" =>
                             (thr[t].pc = "d_ctx" /\ thr[t].nfree = 0 /\ thr'[t].nfree = 1)]_vars

\* C4 witness: a release at the threshold has issued its free while the pool
\* holds the address of a released buffer below the threshold.
C4_Witness ==
    \E t \in Threads :
        /\ thr[t].pc = "d_ret"
        /\ thr[t].buf.size = HUGE_BUFFER_SIZE
        /\ thr[t].nfree = 1
        /\ thr[t].buf.ptr \in Addrs \ allocated
        /\ \E key \in ClassKeys :
              /\ key[2] < HUGE_BUFFER_SIZE
              /\ \E a \in Addrs : Contains(cache[key], a)

\* C5 (as claimed): a buffer that _alloc_device_buffer returns with the zero
\* flag set holds zeros, recycled or fresh.
C5_ZeroedOnReturn ==
    \A t \in Threads :
        (thr[t].pc = "a_ret" /\ thr[t].zero /\ thr[t].buf.ptr \in Addrs)
            => mem[thr[t].buf.ptr] = "zero"

\* C6 (as claimed): no thread is about to call into the device while it
\* holds the cache mutex.
C6_NoDeviceCallUnderLock ==
    \A t \in Threads : thr[t].pc \in DeviceCallPcs => lock # t

\* ------------------------------------------- orchestrator: properties
\* the transcript operations create_proof_from_advices makes itself
Listed(t) ==
    LET Own(e) == e.op # "external"
    IN SelectSeq(t, Own)

\* the order of section 4.7
ExpectedTranscript ==
    [j \in 1..NAdvice |-> Write("advice", j - 1)]
    \o <<Squeeze("theta")>>
    \o [j \in 1..(2 * NLookups) |->
           Write(IF j % 2 = 1 THEN "permuted_input" ELSE "permuted_table", (j - 1) \div 2)]
    \o <<Squeeze("beta"), Squeeze("gamma")>>
    \o [j \in 1..NChunks |-> Write("permutation_product", j - 1)]
    \o [j \in 1..NLookups |-> Write("lookup_z", j - 1)]
    \o <<Squeeze("y")>>

\* C7 (as claimed): once the call has ended after a device failure, it has
\* ended by returning Err; it has not panicked, and it has not gone on to
\* return Ok with the failure unnoticed.
C7_DeviceFailureIsErr ==
    (pc = "returned" /\ devfail # {}) => result = "err"

\* C8: when create_proof_from_advices has returned Ok, the writes and
\* squeezes it made on the transcript are, in order: the advice commitments
\* by column, theta, the permuted-input and permuted-table commitment of each
\* lookup by ascending index, beta, gamma, the permutation commitments by
\* chunk, the running-product commitments of the lookups by ascending index, y.
C8_TranscriptOrder ==
    result = "ok" => Listed(transcript) = ExpectedTranscript

\* C8 witness: a run has returned Ok for a circuit whose first lookup is a
\* tuple lookup and whose second is a single unit lookup, so that the class
\* order and the index order differ.
C8_Witness ==
    /\ result = "ok"
    /\ ClassOf(cs_lookups[0]) = "tuple"
    /\ ClassOf(cs_lookups[1]) = "unit"
    /\ Len(transcript) = NAdvice + 3 * NLookups + NChunks + 6

\* C9: the single-lookup thread is spawned before any advice commitment and
\* joined only once theta is squeezed; the tuple thread is spawned only once
\* theta is squeezed, is spawned and unjoined during the single-lookup MSM
\* loops, and is joined before any tuple commitment is computed; the
\* permutation thread is spawned only once beta and gamma are squeezed and is
\* joined before a permutation commitment is written; nothing is read before
\* the join or the squeeze that produces it.
C9_ThreadOrdering ==
    /\ (\E j \in 1..Len(transcript) : transcript[j].what = "advice")
           => bg["lookup"].handle # "none"
    /\ bg["lookup"].handle = "joined" => "theta" \in chal
    /\ bg["tuple"].handle # "none" => "theta" \in chal
    /\ (pc \in {"unit_msm", "comp_msm"} /\ result = "running") => bg["tuple"].handle = "held"
    /\ (\E i \in LookupIds :
           /\ ClassOf(cs_lookups[i]) = "tuple"
           /\ lookup_permuted_commitments[i * 2 + 1] # Identity)
           => bg["tuple"].handle = "joined"
    /\ bg["perm"].handle # "none" => {"beta", "gamma"} \subseteq chal
    /\ (\E j \in 1..Len(transcript) : transcript[j].what = "permutation_product")
           => bg["perm"].handle = "joined"
    /\ early = {}

\* C9 witness: the tuple thread is still running while the second single
\* unit lookup is committed, the single-lookup thread having been joined.
C9_Witness ==
    /\ pc = "unit_msm"
    /\ idx = 1
    /\ result = "running"
    /\ Len(loc.single_unit_lookups) >= 2
    /\ bg["tuple"].state = "running"
    /\ bg["lookup"].handle = "joined"

\* C10 (as claimed): when the call has returned Ok or Err, every background
\* thread it spawned has been joined.
C10_JoinedOnEveryExit ==
    (pc = "returned" /\ result \in {"ok", "err"})
        => \A h \in Handles : bg[h].handle \in {"none", "joined"}

\* ------------------------------------------- handle_lookup_pair: properties
\* how often value x occurs in rows [0, u) of v
RECURSIVE Count(_, _, _)
Count(v, u, x) ==
    IF u = 0 THEN 0 ELSE (IF Row(v, u - 1) = x THEN 1 ELSE 0) + Count(v, u - 1, x)

\* every input value of the prefix appears in the table prefix
InputInTable ==
    \A r \in 0..(lp.u - 1) : \E q \in 0..(lp.u - 1) : Row(lp.input, r) = Row(lp.table, q)

\* C11: when handle_lookup_pair returns for a pair whose input values of the
\* prefix all appear in the table prefix, every row r of the prefix whose
\* permuted input and permuted table values differ has r > 0 and repeats the
\* permuted input value of row r - 1; and the call does return.
C11_Continuity ==
    InputInTable =>
        /\ lp.pc # "panicked"
        /\ lp.pc = "done" =>
              \A r \in 0..(lp.u - 1) :
                  Row(lp.permuted_input, r) # Row(lp.permuted_table, r)
                      => (r > 0 /\ Row(lp.permuted_input, r) = Row(lp.permuted_input, r - 1))

\* C11 witness: a returned pair with a row whose two values differ
C11_Witness ==
    /\ lp.pc = "done"
    /\ InputInTable
    /\ \E r \in 1..(lp.u - 1) : Row(lp.permuted_input, r) # Row(lp.permuted_table, r)

\* C12: when handle_lookup_pair returns for such a pair, every value occurs
\* in permuted_input and permuted_table together, over the prefix, as often
\* as in input and table together.
C12_SameMultiset ==
    (lp.pc = "done" /\ InputInTable) =>
        \A x \in Values :
            Count(lp.permuted_input, lp.u, x) + Count(lp.permuted_table, lp.u, x)
                = Count(lp.input, lp.u, x) + Count(lp.table, lp.u, x)

\* C12 witness: a returned pair whose input repeats a value and whose
\* sorted orders differ from the orders given
C12_Witness ==
    /\ lp.pc = "done"
    /\ InputInTable
    /\ lp.u = MaxUsable
    /\ lp.permuted_input # lp.input
    /\ lp.sorted_table # lp.table
    /\ \E r \in 1..(lp.u - 1) : Row(lp.permuted_input, r) = Row(lp.permuted_input, r - 1)
    /\ lp.permuted_table # lp.sorted_table

\* ------------------------------------------------------ evaluator: properties
\* the pass was given a device on which no call fails
NoFailure == ev.w.failAt = 0

\* C13 (as claimed): for every expression tree, a bare Unit, a bare Y and a
\* tree of Sum and Scale nodes included, the top-level evaluation hands back
\* one Materialized buffer of degree 4 when no device call fails.
C13_TopLevelMaterialized ==
    (NoFailure /\ ev.pc \notin {"call", "match"})
        => (ev.pc \in {"copy", "done"} /\ ev.res.kind = "Single" /\ ev.res.deg = 4)

\* the two sides of the Op node under evaluation, evaluated as the code does:
\* the left one first, the right one in the context the left one leaves
LeftSide == evaluate_prove_expr(ev.expr.kids[1], ev.w)
RightSide == evaluate_prove_expr(ev.expr.kids[2], LeftSide.w)

BothBorrowed ==
    /\ ev.pc = "call"
    /\ ev.expr.t = "Op"
    /\ ev.expr.op = "Sum"
    /\ LeftSide.r.kind = "SumBorrow" /\ LeftSide.r.deg = 1
    /\ RightSide.r.kind = "SumBorrow" /\ RightSide.r.deg = 1

\* C14: evaluating Op(l, r, Sum) whose two sides are Borrowed-sums of degree 1
\* returns a Borrowed-sum of degree 1 whose terms are l's terms followed by
\* r's terms and whose constant is the sum of the constants present (absent
\* only when both are absent); no device call is issued and no device buffer
\* is acquired.
C14_SumOfBorrowed ==
    [][BothBorrowed =>
          /\ ev'.pc = "match"
          /\ ev'.res.kind = "SumBorrow"
          /\ ev'.res.deg = 1
          /\ ev'.res.arr = LeftSide.r.arr \o RightSide.r.arr
          /\ ev'.res.c = (CASE LeftSide.r.c.some /\ RightSide.r.c.some ->
                                  Some(FAdd(LeftSide.r.c.v, RightSide.r.c.v))
                            [] LeftSide.r.c.some /\ ~RightSide.r.c.some -> LeftSide.r.c
                            [] ~LeftSide.r.c.some /\ RightSide.r.c.some -> RightSide.r.c
                            [] OTHER -> None)
          /\ ev'.w.calls = ev.w.calls
          /\ ev'.w.fresh = ev.w.fresh
          /\ ev'.w.extended_allocator = ev.w.extended_allocator]_vars

\* C14 witness: a Sum of two Borrowed-sums has been evaluated to a
\* Borrowed-sum with terms of both sides and a constant
C14_Witness ==
    /\ ev.pc = "match"
    /\ ev.expr.t = "Op"
    /\ ev.expr.op = "Sum"
    /\ ev.res.kind = "SumBorrow"
    /\ Len(ev.res.arr) = 2
    /\ ev.res.arr[1].src # ev.res.arr[2].src
    /\ ev.res.c.some
    /\ ev.w.calls = <<>>

\* the calls of the pass that compute on buffers, in the order issued
Work ==
    SelectSeq(ev.w.calls,
              LAMBDA c : c.f \in {"field_mul_sum_vec", "extended_prepare", "ntt_raw",
                                  "field_sum", "field_mul", "field_op_v2"})

ProductOfUnits ==
    /\ ev.expr.t = "Op"
    /\ ev.expr.op = "Product"
    /\ ev.expr.kids[1].t = "Unit"
    /\ ev.expr.kids[2].t = "Unit"

\* C15: for Op(Unit(A), Unit(B), Product) each operand is materialized by
\* exactly one fused weighted-sum call and lifted by exactly one extended
\* transform, the left operand before the right one, both before the single
\* element-wise multiply over extended_size elements; the result is a
\* Materialized buffer of degree 4.
C15_ProductOfUnits ==
    (ProductOfUnits /\ NoFailure /\ ev.pc # "call") =>
        /\ ev.pc \in {"match", "copy", "done"}
        /\ Len(Work) = 7
        /\ [j \in 1..7 |-> Work[j].f]
             = <<"field_mul_sum_vec", "extended_prepare", "ntt_raw",
                 "field_mul_sum_vec", "extended_prepare", "ntt_raw", "field_mul">>
        /\ Work[1].arr = <<Term(ev.expr.kids[1].col, ev.expr.kids[1].rot, None)>>
        /\ Work[4].arr = <<Term(ev.expr.kids[2].col, ev.expr.kids[2].rot, None)>>
        /\ Work[7].bufs = <<Work[1].bufs[1], Work[4].bufs[1]>>
        /\ Work[1].bufs[1] # Work[4].bufs[1]
        /\ \A j \in {2, 3} : Work[j].bufs[1] = Work[1].bufs[1]
        /\ \A j \in {5, 6} : Work[j].bufs[1] = Work[4].bufs[1]
        /\ Work[7].n = ev.w.extended_size
        /\ ev.res = Single(4, Work[1].bufs[1])

\* C15 witness: the product of two different columns has been evaluated and
\* handed back
C15_Witness ==
    /\ ProductOfUnits
    /\ NoFailure
    /\ ev.pc = "done"
    /\ ev.expr.kids[1].col # ev.expr.kids[2].col
    /\ ev.w.extended_size # 4 * ev.w.size

\* ------------------------------------------------- lookup_classify: properties
\* the original indices held by a class, in the order of the class
Indices(class) == [j \in 1..Len(class) |-> class[j][1]]

Ascending(s) == \A j \in 1..(Len(s) - 1) : s[j] < s[j + 1]

\* how many entries of a class carry index i
Holds(class, i) == Cardinality({j \in 1..Len(class) : class[j][1] = i})

\* C19: lookup_classify puts every lookup, paired with its original index,
\* into exactly one of three classes: single-unit when it has one input and
\* one table expression and both are pure, single-composite when it has one of
\* each and at least one is not pure, tuple otherwise; the indices of each
\* class ascend and no lookup is lost or duplicated.
C19_Classified ==
    lc.pc = "returned" =>
        /\ \A i \in 0..(Len(lc.lookups) - 1) :
              LET l == lc.lookups[i + 1]
                  one == Len(l.input_expressions) = 1 /\ Len(l.table_expressions) = 1
                  pure == /\ is_expression_pure_unit(l.input_expressions[1])
                          /\ is_expression_pure_unit(l.table_expressions[1])
              IN /\ Holds(lc.single_unit_lookups, i) = (IF one /\ pure THEN 1 ELSE 0)
                 /\ Holds(lc.single_comp_lookups, i) = (IF one /\ ~pure THEN 1 ELSE 0)
                 /\ Holds(lc.tuple_lookups, i) = (IF ~one THEN 1 ELSE 0)
        /\ \A class \in {lc.single_unit_lookups, lc.single_comp_lookups, lc.tuple_lookups} :
              /\ Ascending(Indices(class))
              /\ \A j \in 1..Len(class) :
                    /\ class[j][1] \in 0..(Len(lc.lookups) - 1)
                    /\ class[j][2] = lc.lookups_buf[class[j][1] + 1]

\* C19 witness: a classification has returned a class of two lookups and a
\* tuple lookup one of whose lists holds one expression
C19_Witness ==
    /\ lc.pc = "returned"
    /\ Len(lc.single_comp_lookups) >= 2
    /\ \E j \in 1..Len(lc.tuple_lookups) :
          LET l == lc.lookups[lc.tuple_lookups[j][1] + 1]
          IN Len(l.input_expressions) # Len(l.table_expressions)

\* ------------------------------------------- permutation product: properties
\* column j (from 0) of chunk c
ColumnOf(c, j) == pz.columns[c * pz.chunk_len + j + 1]

\* the columns chunk c holds
Width(c) == Len(ChunkColumns(pz, c))

RECURSIVE Product(_, _, _)
Product(F(_), lo, hi) == IF lo > hi THEN 1 ELSE FMul(F(lo), Product(F, lo + 1, hi))

\* product over the columns of chunk c of
\* DELTA^(c * chunk_len + j) * omega^r * beta + gamma + value_j[r]
CosetSide(c, r) ==
    LET T(j) == FAdd(FAdd(FMul(FMul(FPow(DELTA, c * pz.chunk_len + j), FPow(OMEGA, r)), pz.beta),
                          pz.gamma),
                     At0(ColumnOf(c, j).values, r))
    IN Product(T, 0, Width(c) - 1)

\* product over the columns of chunk c of
\* beta * permuted_column_j[r] + gamma + value_j[r]
PermutedSide(c, r) ==
    LET T(j) == FAdd(FAdd(FMul(pz.beta, At0(ColumnOf(c, j).permuted, r)), pz.gamma),
                     At0(ColumnOf(c, j).values, r))
    IN Product(T, 0, Width(c) - 1)

\* C20: before the running-product scan, the value of chunk c at row r is the
\* product over the chunk's columns j of (DELTA^(c * chunk_len + j) * omega^r *
\* beta + gamma + value_j[r]) divided by the product over the same columns of
\* (beta * permuted_column_j[r] + gamma + value_j[r]).
C20_Factors ==
    pz.pc = "chunks" =>
        \A c \in pz.mapped :
            c >= pz.scanned =>
                \A r \in 0..(PzSize - 1) :
                    /\ At0(pz.p_z[c + 1], r) \in 0..(FieldP - 1)
                    /\ FMul(At0(pz.p_z[c + 1], r), PermutedSide(c, r))
                         = (IF PermutedSide(c, r) = 0 THEN 0 ELSE CosetSide(c, r))

\* C20 witness: the last chunk of several columns has its factors, a factor
\* is neither 0 nor 1, and no chunk is scanned yet
C20_Witness ==
    /\ pz.pc = "chunks"
    /\ pz.scanned = 0
    /\ pz.mapped = 0..(ChunkCount(pz) - 1)
    /\ Width(ChunkCount(pz) - 1) = 2
    /\ \A r \in 0..(PzSize - 1) : PermutedSide(ChunkCount(pz) - 1, r) # 0
    /\ \E r \in 1..(PzSize - 1) : At0(pz.p_z[ChunkCount(pz)], r) \notin {0, 1}

\* C16 (as claimed): with the blinding toggle off, in every chunk's
\* running-product column all rows beyond unusable_rows_start hold the
\* chunk's final product value, its value at row unusable_rows_start.
C16_BeyondHeldConstant ==
    (pz.pc = "returned" /\ ~ADD_RANDOM) =>
        \A c \in 0..(ChunkCount(pz) - 1) :
            \A r \in (pz.unusable_rows_start + 1)..(PzSize - 1) :
                At0(pz.p_z[c + 1], r) = At0(pz.p_z[c + 1], pz.unusable_rows_start)

\* the products of the two sides of a one-column chunk over the rows before i
CosetBefore(c, i) == LET T(j) == CosetSide(c, j) IN Product(T, 0, i - 1)
PermutedBefore(c, i) == LET T(j) == PermutedSide(c, j) IN Product(T, 0, i - 1)

\* the one-column chunks none of whose terms is zero
OneColumnChunks ==
    {c \in 0..(ChunkCount(pz) - 1) :
        /\ Width(c) = 1
        /\ \A r \in 0..(PzSize - 1) : PermutedSide(c, r) # 0 /\ CosetSide(c, r) # 0}

\* C17 (as claimed): for a chunk of one column, the running-product output at
\* every row i of the usable range is the exclusive prefix product of the
\* (beta*perm+gamma+value) terms divided by the (delta*omega^i*beta+gamma+value)
\* terms, delta being the coset factor DELTA^(c*chunk_len) of the chunk.
C17_AsClaimed ==
    pz.pc = "returned" =>
        \A c \in OneColumnChunks :
            \A i \in 0..pz.unusable_rows_start :
                FMul(At0(pz.p_z[c + 1], i), CosetBefore(c, i))
                    = FMul(At0(pz.p_z[c + 1], 0), PermutedBefore(c, i))

\* C17 (amended): for a chunk of one column, the running-product output at
\* every row i of the usable range is the exclusive prefix product of the
\* (delta*omega^i*beta+gamma+value) terms divided by the (beta*perm+gamma+value)
\* terms, times the value the chunk starts from, which is 1 for the first chunk.
C17_PrefixProduct ==
    pz.pc = "returned" =>
        \A c \in OneColumnChunks :
            /\ c = 0 => At0(pz.p_z[c + 1], 0) = 1
            /\ \A i \in 0..pz.unusable_rows_start :
                  FMul(At0(pz.p_z[c + 1], i), PermutedBefore(c, i))
                      = FMul(At0(pz.p_z[c + 1], 0), CosetBefore(c, i))

\* C17 witness: the products of a circuit whose first chunk has one column
\* have been returned, and that chunk's product moves away from 1
C17_Witness ==
    /\ pz.pc = "returned"
    /\ 0 \in OneColumnChunks
    /\ pz.unusable_rows_start = PzSize - 1
    /\ \A i \in 1..pz.unusable_rows_start : At0(pz.p_z[1], i) \notin {0, 1}
    /\ At0(pz.p_z[1], 1) # At0(pz.p_z[1], 2)

\* ------------------------------------------------------ MSM merge: properties
\* the window-w total: the partials at w + 32 * g over all groups g
WindowTotal(w) ==
    LET T(g) == Partials(mw.msm_groups, mw.p, mw.s)[w + Windows * g]
    IN SumOver(T, 0..(mw.msm_groups - 1))

\* sum over the windows of 2^(8 * w) times the window-w total
WeightedTotals ==
    LET T(w) == GMul(GPow2(WindowBits * w), WindowTotal(w))
    IN SumOver(T, 0..(Windows - 1))

\* C18: merging the 32 x groups partial accumulators, by summing for each
\* window w the partials at w + 32 * g over the groups and then running the
\* ladder from window 31 down with 8 doublings and one addition per lower
\* window, yields the sum over the windows of 2^(8 * w) times the window-w
\* total, which is the naive sum of scalar_i * point_i.
C18_MergeIsNaiveSum ==
    /\ (mw.pc = "ladder" /\ mw.i = Windows - 1) =>
          /\ \A w \in 0..(Windows - 1) : mw.tmp[w] = WindowTotal(w)
          /\ mw.msm_res = WeightedTotals
          /\ mw.msm_res = Expected(mw.p, mw.s)
    /\ mw.pc # "panicked"

\* C18 witness: the merge of an MSM of several groups, with scalars that
\* have high and low windows, has passed with a result other than zero
C18_Witness ==
    /\ mw.pc = "passed"
    /\ mw.msm_groups > 1
    /\ Len(mw.p) > mw.msm_groups
    /\ \E i \in 1..Len(mw.s) : Digit(mw.s[i], Windows - 1) # 0
    /\ \E i \in 1..Len(mw.s) : Digit(mw.s[i], 0) # 0
    /\ mw.msm_res # group_zero

\* ------------------------------------------------- permutation scan: properties
\* the per-row factors of chunk c, as the closure computed them
FactorsBefore(c, i) == LET T(j) == At0(ModifiedValues(pz, c), j) IN Product(T, 0, i - 1)

\* C21: after the shift-then-multiply scan, for every chunk c with per-row
\* factors f_c and every row i in [0, size), z_c[i] = z_c[0] times the product
\* of f_c[j] for j < i; z_0[0] = 1 and, for every following chunk,
\* z_(c+1)[0] = z_c[unusable_rows_start].
C21_ScanChain ==
    pz.pc = "returned" =>
        /\ At0(pz.p_z[1], 0) = 1
        /\ \A c \in 0..(ChunkCount(pz) - 1) :
              /\ \A i \in 0..(PzSize - 1) :
                    At0(pz.p_z[c + 1], i) = FMul(At0(pz.p_z[c + 1], 0), FactorsBefore(c, i))
              /\ c > 0 => At0(pz.p_z[c + 1], 0) = At0(pz.p_z[c], pz.unusable_rows_start)

\* C21 witness: the products of several chunks have been returned, a later
\* chunk starts from a value other than 1, and that value is not the product
\* of all the rows of the chunk before it
C21_Witness ==
    /\ pz.pc = "returned"
    /\ ChunkCount(pz) > 1
    /\ At0(pz.p_z[2], 0) # 1
    /\ At0(pz.p_z[2], 0) # FactorsBefore(0, PzSize)
    /\ \E i \in 1..(PzSize - 1) : At0(pz.p_z[2], i) # At0(pz.p_z[2], 0)

\* ---------------------------------------------------- evaluator: Scale and y
\* the last call of the pass that computes on buffers
LastWork == Work[Len(Work)]

\* C22 (as claimed): Scale applied to a Materialized sub-result multiplies all
\* extended_size = 2^extended_k elements of its buffer, for every admissible
\* pair k <= extended_k, by the weighted sum of y powers of the linear
\* combination.
C22_ScaleWholeBuffer ==
    (ev.pc \in {"match", "copy", "done"} /\ NoFailure
        /\ ev.expr.t = "Scale" /\ ev.res.kind = "Single") =>
        /\ LastWork.f = "field_op_v2"
        /\ LastWork.bufs = <<ev.res.buf, ev.res.buf>>
        /\ LastWork.arr = <<Term(ev.res.buf, 0, Some(SumYs(ev.expr.ys, ev.w.y)))>>
        /\ LastWork.n = ev.w.extended_size

\* ------------------------------------------------ evaluator: buffer accounting
\* the evaluation returned Ok
Evaluated == ev.pc \in {"match", "copy", "done"}

\* the device buffers acquired during the pass
Acquired == FirstFresh..(ev.w.fresh - 1)

InList(pool, b) == \E j \in DOMAIN pool : pool[j] = b
NoDuplicate(pool) == \A i, j \in DOMAIN pool : pool[i] = pool[j] => i = j

\* the free-list at the moment device call i is issued
PoolBefore(i) ==
    LET S == {j \in DOMAIN ev.w.trail : ev.w.trail[j].at < i}
    IN IF S = {} THEN <<>> ELSE ev.w.trail[CHOOSE j \in S : \A m \in S : m <= j].pool

\* the first pop or push after device call i is a push of buffer b, with
\* `between` device calls in between
PushedAfter(i, b, between) ==
    LET S == {j \in DOMAIN ev.w.trail : ev.w.trail[j].at >= i}
    IN /\ S # {}
       /\ LET m == ev.w.trail[CHOOSE j \in S : \A n \in S : j <= n]
          IN m.op = "push" /\ m.buf = b /\ m.at = i + between

\* C23: after a successful top-level evaluation every buffer acquired during
\* the pass is either the returned result buffer or in the extended free-list
\* (never both, and once only); the right operand's buffer of every
\* materialized Sum or Product is pushed right after the operation; the
\* transform's temporary is pushed back after each extended transform (after
\* its closing synchronize); and no device call is ever issued on a buffer that
\* is in the free-list at that moment, nor is a buffer ever in it twice.
C23_BufferAccounting ==
    Evaluated =>
        /\ \A b \in Acquired :
              (ev.res.kind = "Single" /\ ev.res.buf = b) # InList(ev.w.extended_allocator, b)
        /\ \A j \in DOMAIN ev.w.extended_allocator : ev.w.extended_allocator[j] \in Acquired
        /\ \A i \in DOMAIN ev.w.calls :
              LET call == ev.w.calls[i]
              IN /\ call.f \in {"field_sum", "field_mul"} =>
                       /\ call.bufs[1] # call.bufs[2]
                       /\ PushedAfter(i, call.bufs[2], 0)
                 /\ call.f = "ntt_raw" =>
                       /\ call.bufs[1] # call.bufs[2]
                       /\ PushedAfter(i, call.bufs[2], 1)
                 /\ \A n \in DOMAIN call.bufs : ~InList(PoolBefore(i), call.bufs[n])
        /\ \A j \in DOMAIN ev.w.trail : NoDuplicate(ev.w.trail[j].pool)

\* a finished pass over a nested operation in which a buffer was taken from
\* the free-list again and two buffers ended in it
C23_Witness ==
    /\ ev.pc = "done"
    /\ ev.res.kind = "Single"
    /\ ev.expr.kids[1].t = "Op"
    /\ Len(ev.w.extended_allocator) >= 2
    /\ \E j \in DOMAIN ev.w.trail : ev.w.trail[j].op = "pop"
    /\ \E i \in DOMAIN ev.w.calls : ev.w.calls[i].f = "ntt_raw"

\* ------------------------------------------------- evaluator: the y power table
\* the number of eval_ys calls of the passes studied
MaxCalls == 3

\* the linear combinations of y powers asked for: (order, coefficient) pairs
\* in key order
YsChoices ==
    {YsLeaf, YsScale, << <<0, 3>> >>, << <<1, 2>> >>, << <<0, 3>>, <<3, 1>> >>,
     << <<1, 1>>, <<4, 2>> >>, << <<2, 5>>, <<3, 7>>, <<4, 1>> >>}

\* the values of the challenge y of these passes
YsValues == {2, 3, 6}

\* a pass that has made n calls of eval_ys, the last one for ys, returning c
YsPass(w, ys, c, n) == [pc |-> "ys", w |-> w, ys |-> ys, c |-> c, n |-> n]

\* let c = eval_ys(ys, ctx);
EysCall ==
    /\ ev.pc = "ys"
    /\ ev.n < MaxCalls
    /\ \E ys \in YsChoices :
          LET e == eval_ys(ys, ev.w)
          IN ev' = YsPass(e.w, ys, e.c, ev.n + 1)

\* the context as evaluate_h_gates builds it: y: vec![one, y]
InitYs ==
    /\ Rest
    /\ lp = LpIdle
    /\ pz = PzIdle
    /\ mw = MwIdle
    /\ lc = LcIdle
    /\ \E y \in YsValues : ev = YsPass(World(y, EvalK, EvalK + 2, 0), <<>>, 0, 0)

NextYs == EysCall /\ UNCHANGED notEv

SpecYs == InitYs /\ [][NextYs]_vars

\* the sum of coefficient * y^order over the entries of ys
RECURSIVE Combination(_, _)
Combination(ys, y) ==
    IF ys = <<>> THEN 0
    ELSE FAdd(FMul(ys[1][2], FPow(y, ys[1][1])), Combination(Tail(ys), y))

Larger(a, b) == IF a >= b THEN a ELSE b

\* C24: over any sequence of eval_ys calls in one pass, after each call
\* ctx.y[i] = y^i for every index held, the table keeps what it held and
\* reaches exactly to the larger of its old length and the highest order just
\* requested (so it never shrinks and is extended only up to the highest
\* order requested so far), and the call returns the sum of
\* coefficient * y^order.
C24_PowerTable ==
    [][(ev.pc = "ys" /\ ev'.pc = "ys") =>
          /\ \A i \in 0..(Len(ev'.w.y) - 1) : ev'.w.y[i + 1] = FPow(ev.w.y[2], i)
          /\ Len(ev'.w.y) = Larger(Len(ev.w.y), ev'.ys[Len(ev'.ys)][1] + 1)
          /\ SubSeq(ev'.w.y, 1, Len(ev.w.y)) = ev.w.y
          /\ ev'.c = Combination(ev'.ys, ev.w.y[2])]_vars

\* a call that found the table already extended past the orders it asks for,
\* after a call that extended it to order 4
C24_Witness ==
    /\ ev.pc = "ys"
    /\ ev.n >= 2
    /\ Len(ev.w.y) = 5
    /\ ev.ys[Len(ev.ys)][1] < 3
    /\ ev.c # 0

\* -------------------------------------------- evaluator: borrowed linear sums
\* the values the column buffers hold, row by row (size = 2^EvalK rows)
ColumnValues == << <<3, 5>>, <<7, 11>> >>

\* the value of a column at a rotated row; rotations wrap around the domain
ValueAt(col, row, rot) == ColumnValues[col][((row + rot) % (2 ^ EvalK)) + 1]

\* the expression has only Unit, Y, Sum and Scale nodes
RECURSIVE Linear(_)
Linear(expr) ==
    CASE expr.t \in {"Unit", "Y"} -> TRUE
      [] expr.t = "Scale" -> Linear(expr.kids[1])
      [] expr.t = "Op" -> expr.op = "Sum" /\ Linear(expr.kids[1]) /\ Linear(expr.kids[2])

\* the straightforward evaluator: the value of the expression at one row
RECURSIVE Reference(_, _, _)
Reference(expr, row, y) ==
    CASE expr.t = "Unit" -> ValueAt(expr.col, row, expr.rot)
      [] expr.t = "Y" -> Combination(expr.ys, y)
      [] expr.t = "Scale" -> FMul(Reference(expr.kids[1], row, y), Combination(expr.ys, y))
      [] expr.t = "Op" ->
           IF expr.op = "Sum"
             THEN FAdd(Reference(expr.kids[1], row, y), Reference(expr.kids[2], row, y))
             ELSE FMul(Reference(expr.kids[1], row, y), Reference(expr.kids[2], row, y))

\* what a Borrowed-sum denotes at one row: the sum of coefficient * column
\* at rotation, plus the constant; an absent coefficient is one, an absent
\* constant zero
RECURSIVE TermsAt(_, _)
TermsAt(arr, row) ==
    IF arr = <<>> THEN 0
    ELSE FAdd(FMul(IF arr[1].c.some THEN arr[1].c.v ELSE 1, ValueAt(arr[1].src, row, arr[1].rot)),
              TermsAt(Tail(arr), row))

Denoted(r, row) == FAdd(TermsAt(r.arr, row), IF r.c.some THEN r.c.v ELSE 0)

\* C30: for every expression of only Unit, Y, Sum and Scale nodes
\* evaluate_prove_expr issues no device call and returns a Borrowed-sum of
\* degree 1 that denotes, at every row, the value the straightforward
\* evaluator gives the expression.
C30_BorrowedDenotesValue ==
    (Linear(ev.expr) /\ ev.pc # "call") =>
        /\ ev.w.calls = <<>>
        /\ ev.w.fresh = FirstFresh
        /\ ev.res.kind = "SumBorrow"
        /\ ev.res.deg = 1
        /\ \A row \in 0..(ev.w.size - 1) :
              Denoted(ev.res, row) = Reference(ev.expr, row, ev.w.y[2])

\* a scaled sum of a rotated column and a y combination has been evaluated
C30_Witness ==
    /\ ev.pc = "match"
    /\ ev.expr.t = "Scale"
    /\ ev.expr.kids[1].t = "Op"
    /\ ev.res.kind = "SumBorrow"
    /\ ev.res.c.some
    /\ \E j \in DOMAIN ev.res.arr : ev.res.arr[j].rot # 0 /\ ev.res.arr[j].c.some

\* ------------------------------------------------- lookup pair: any input
\* C27: for every input, every table and every unusable_rows_start <= length,
\* also when some input value does not appear in the table,
\* handle_lookup_pair never panics; row 0 of the two permuted vectors never
\* differs, and when the call returns every row of the prefix where they
\* differ is not a run start and equals the preceding permuted_input row.
C27_AssertionNeverFails ==
    /\ lp.pc # "panicked"
    /\ lp.pc \in {"rows", "done"} => Row(lp.permuted_input, 0) = Row(lp.permuted_table, 0)
    /\ lp.pc = "done" =>
          \A r \in 0..(lp.u - 1) :
              Row(lp.permuted_input, r) # Row(lp.permuted_table, r)
                  => /\ r > 0
                     /\ ~Row(lp.permuted_table_state, r)
                     /\ Row(lp.permuted_input, r) = Row(lp.permuted_input, r - 1)

\* a returned pair with an input value the table does not hold, with no row
\* after the prefix, and with a row whose two values differ
C27_Witness ==
    /\ lp.pc = "done"
    /\ ~InputInTable
    /\ Len(lp.input) = lp.u
    /\ \E r \in 1..(lp.u - 1) : Row(lp.permuted_input, r) # Row(lp.permuted_table, r)

\* C28: for every input and table the fill loop reads sorted_table only at
\* indices strictly below unusable_rows_start, and it runs to its end: the
\* only step that can stop the call is the check after the loop.
C28_CursorInsidePrefix ==
    lp.pc \in {"rows", "done", "panicked"} =>
        /\ lp.read < lp.u
        /\ lp.i_sorted_table_idx <= lp.u
        /\ lp.pc = "panicked" => lp.i = lp.u

\* the loop has ended with the last row of the sorted prefix read, for a
\* pair with no row after the prefix
C28_Witness ==
    /\ lp.pc = "rows"
    /\ lp.i = lp.u
    /\ Len(lp.input) = lp.u
    /\ lp.read = lp.u - 1
    /\ lp.i_sorted_table_idx = lp.u
    /\ lp.u > 1

\* ------------------------------------------------- lookup running product
\* no factor (beta + permuted_input[r]) * (gamma + permuted_table[r]) is zero
NoZeroFactor ==
    \A r \in 0..(Len(lp.input) - 1) : LookupDenominator(lp, lp.beta, lp.gamma, r) # 0

\* C29: with the blinding toggle off, for every lookup whose input values
\* all appear in its table and with no zero factor
\* (beta + permuted_input[r]) * (gamma + permuted_table[r]), the running
\* product has z[0] = 1, z[i + 1] times the permuted factor of row i equal to
\* z[i] times (beta + input[i]) * (gamma + table[i]) for every
\* i < unusable_rows_start (the quotient of the claim, the divisor being
\* nonzero), and z[unusable_rows_start] = 1.
C29_LookupProduct ==
    (lp.pc = "z" /\ ~ADD_RANDOM /\ InputInTable /\ NoZeroFactor) =>
        /\ Row(lp.z, 0) = 1
        /\ \A i \in 0..(lp.u - 1) :
              FMul(Row(lp.z, i + 1), LookupDenominator(lp, lp.beta, lp.gamma, i))
                  = FMul(Row(lp.z, i), LookupNumerator(lp, lp.beta, lp.gamma, i))
        /\ Row(lp.z, lp.u) = 1

\* a product that leaves one on the way and comes back to it, for a pair
\* whose permuted vectors are not the vectors given
C29_Witness ==
    /\ lp.pc = "z"
    /\ InputInTable
    /\ NoZeroFactor
    /\ lp.permuted_input # lp.input
    /\ lp.permuted_table # lp.table
    /\ \E i \in 1..(lp.u - 1) : Row(lp.z, i) # 1

\* ------------------------------------------------------ cache: active device
\* thread t issues a device call in this step: cudaMemset of a recycled
\* buffer, cudaMalloc, cudaMemcpyAsync of alloc_device_buffer_from_slice,
\* cudaFreeAsync
Issues(t) ==
    \/ thr[t].pc = "a_memset" /\ thr'[t].pc = "a_ret"
    \/ thr[t].pc = "a_ctx" /\ thr'[t].pc \in {"a_ret", "d_lock", "d_ctx"}
    \/ thr[t].pc = "c_ctx" /\ thr'[t].pc = "idle"
    \/ thr[t].pc = "d_ctx" /\ thr'[t].pc = "d_ret"

\* C26 (as claimed): every device call issued through a device handle or for
\* a buffer of that device is made after that device has been made the
\* active device on the calling thread: when the call is issued the thread's
\* current device is the device of the handle.
C26_ActiveDevice ==
    [][\A t \in Threads : Issues(t) => current'[t] = thr[t].buf.device]_vars

\* ------------------------------------------- orchestrator: the advice columns
\* C25: the calling thread mutates the shared advice columns in place only
\* while no background thread holding a reference to them is running: when
\* it pins them no thread has been spawned, when it is in the advice INTT
\* loop each of the three threads has finished and has been joined, and a
\* thread that is still running never sees the calling thread at or after
\* that loop, so it reads the columns in evaluation form only.
C25_AdviceMutatedAlone ==
    /\ At("pin") => \A h \in Handles : bg[h] = NotSpawned
    /\ At("advice_intt") =>
          \A h \in Handles : bg[h].state = "finished" /\ bg[h].handle = "joined"
    /\ (\E h \in Handles : bg[h].state = "running") =>
          pc \notin {"advice_intt", "eval_h", "exit_ok"}

\* the loop has converted a column, after three threads ran and were joined
C25_Witness ==
    /\ At("advice_intt")
    /\ idx > 0
    /\ \A h \in Handles : bg[h].handle = "joined"

====
